---- MODULE Spec2Model ----
(***************************************************************************)
(* A model of OpenRCT2's S6 exporter (src/openrct2/rct2/S6Exporter.cpp):   *)
(* the snapshot record _s6, the gather steps of Export, the chunked Save   *)
(* pipeline with its trailing checksum, and scenario_save that drives      *)
(* both.                                                                   *)
(***************************************************************************)
EXTENDS Integers, Sequences, FiniteSets, TLC

VARIABLES
    s6,                   \* S6Exporter::_s6, the snapshot record
    ExportObjectsList,    \* S6Exporter::ExportObjectsList
    RemoveTracklessRides, \* S6Exporter::RemoveTracklessRides
    stream,               \* the IStream handed to Save: [data, pos]
    savePc,               \* position inside Save
    isScenario,           \* Save's parameter
    tailIdx,              \* next chunk of the scenario tail (lines 120-127)
    writeLog,             \* the writes Save has made to the stream, in order
    streamAtEntry,        \* the stream as it was when Save was entered
    saveCalls,            \* number of Save calls made on this exporter
    headerOf,             \* per mode, the header the last call in that mode wrote (<<>>: none yet)
    live,                 \* the live game state Export reads (one field per global)
    exportPc,             \* position of Export
    exportFrame,          \* Export's locals (lines 151-153)
    exportLog,            \* the steps Export has executed, in order
    scenarioSave          \* scenario_save's frame and what it leaves behind

exporterVars == <<s6, ExportObjectsList, RemoveTracklessRides>>
saveVars == <<stream, savePc, isScenario, tailIdx, writeLog, streamAtEntry, saveCalls, headerOf>>
liveVars == <<live>>
exportVars == <<exportPc, exportFrame, exportLog>>
callerVars == <<scenarioSave>>
vars == <<exporterVars, saveVars, liveVars, exportVars, callerVars>>

\* live rides, by ride id (get_ride(i))
gRideList == live.gRideList
\* live peep spawns (a vector)
gPeepSpawns == live.gPeepSpawns
\* live park entrances (a vector)
gParkEntrances == live.gParkEntrances
\* the three financial scalars (lines 205, 206, 259, 306), each a 32-bit value
\* held as 4 little-endian bytes
gInitialCash == live.gInitialCash
gBankLoan == live.gBankLoan
gMaxBankLoan == live.gMaxBankLoan

----------------------------------------------------------------------------
(* Bounds of the model *)

\* how many Save calls one exporter receives
MaxSaves == 3
\* most objects in ExportObjectsList
MaxPacked == 2
\* length of the longest stream content already present when Save is entered
MaxJunk == 3
LongStreamLength == 160

\* rides in the park (255 in the format), measurement slots (8 in the
\* format) and stations of a ride (4 in the format), scaled down
RCT12_MAX_RIDES_IN_PARK == 4
RCT12_RIDE_MEASUREMENT_MAX_ITEMS == 2
RCT12_MAX_STATIONS_PER_RIDE == 1
\* last_use_tick values a live measurement may carry are 0..MaxTick
MaxTick == 3
\* longest live peep-spawn list and longest live park-entrance list
MaxLivePeepSpawns == 3
MaxLiveParkEntrances == 5

\* sizes of the three research domains (scaled down; the packed arrays are
\* sized from them)
RIDE_TYPE_COUNT == 40
MAX_RIDE_OBJECTS == 64
RCT2_MAX_RESEARCHED_SCENERY_ITEMS == 33

\* how many disjoint null sprites the live sprite lists may hold
MaxDisjoint == 2

\* sprite slots (10000 in the format), scaled down
RCT2_MAX_SPRITES == 2

----------------------------------------------------------------------------
(* Program constants *)

\* sprite identifiers
SPRITE_IDENTIFIER_VEHICLE == 0
SPRITE_IDENTIFIER_PEEP == 1
SPRITE_IDENTIFIER_MISC == 2
SPRITE_IDENTIFIER_LITTER == 3
SPRITE_IDENTIFIER_NULL == 255

\* misc sprite types
SPRITE_MISC_STEAM_PARTICLE == 0
SPRITE_MISC_MONEY_EFFECT == 1
SPRITE_MISC_CRASHED_VEHICLE_PARTICLE == 2
SPRITE_MISC_EXPLOSION_CLOUD == 3
SPRITE_MISC_CRASH_SPLASH == 4
SPRITE_MISC_EXPLOSION_FLARE == 5
SPRITE_MISC_JUMPING_FOUNTAIN_WATER == 6
SPRITE_MISC_BALLOON == 7
SPRITE_MISC_DUCK == 8
SPRITE_MISC_JUMPING_FOUNTAIN_SNOW == 9

RIDE_TYPE_NULL == 255
RCT12_RIDE_ID_NULL == 255
RCT12_RIDE_MEASUREMENT_NONE == 255
RIDE_TYPE_MINI_GOLF == 71
RCT12_MAX_INVERSIONS == 31
RCT12_MAX_GOLF_HOLES == 31
RCT_XY8_UNDEFINED == 65535
COORDS_NULL == -1
RCT12_MAX_PEEP_SPAWNS == 2
RCT12_MAX_PARK_ENTRANCES == 4
PEEP_SPAWN_UNDEFINED == 65535
LOCATION_NULL == -32768

S6_TYPE_SAVEDGAME == 0
S6_TYPE_SCENARIO == 1
S6_RCT2_VERSION == 120001
S6_MAGIC_NUMBER == 201028
GAME_VERSION_NUMBER == 201028

\* SAWYER_ENCODING
ENC_RLECOMPRESSED == 1
ENC_ROTATE == 3

----------------------------------------------------------------------------
(* Bytes and fixed-width integers *)

Byte == 0..255

Pow2(n) == 2 ^ n

Max(a, b) == IF a >= b THEN a ELSE b
Min(a, b) == IF a <= b THEN a ELSE b

\* the k low bytes of n, little endian (how a fixed-width field lies in memory)
RECURSIVE LE(_, _)
LE(n, k) == IF k = 0 THEN <<>> ELSE <<n % 256>> \o LE(n \div 256, k - 1)

\* rotate a byte left by n bits
Rol8(b, n) == ((b * Pow2(n)) % 256) + (b \div Pow2(8 - n))

\* a | b for non-negative a and b
RECURSIVE BitOr(_, _)
BitOr(a, b) ==
    IF a = 0 THEN b
    ELSE IF b = 0 THEN a
    ELSE Max(a % 2, b % 2) + 2 * BitOr(a \div 2, b \div 2)

\* a + b modulo 2^32, both 32-bit values held as 4 little-endian bytes
RECURSIVE AddCarry(_, _, _)
AddCarry(a, b, c) ==
    IF a = <<>> THEN <<>>
    ELSE <<(Head(a) + Head(b) + c) % 256>>
            \o AddCarry(Tail(a), Tail(b), (Head(a) + Head(b) + c) \div 256)

Add32(a, b) == AddCarry(a, b, 0)

\* the 32-bit value n (0 <= n < 2^31) as 4 little-endian bytes
Word32(n) == LE(n, 4)

\* -a modulo 2^32: the complement of every byte, plus one
Neg32(a) == AddCarry(<<255 - a[1], 255 - a[2], 255 - a[3], 255 - a[4]>>, <<0, 0, 0, 0>>, 1)

\* a - b modulo 2^32 (the int32_t subtractions of lines 438 and 440 on a
\* two's complement build)
Sub32(a, b) == Add32(a, Neg32(b))

\* a money32 / int32_t value v (-2^31 < v < 2^31) in two's complement
Money32(v) == IF v >= 0 THEN Word32(v) ELSE Neg32(Word32(-v))

\* ror32(x, shift): rotate the 32-bit value right; every byte takes its own
\* high bits and the low bits of the next higher byte (byte 4 from byte 1)
RECURSIVE ror32(_, _)
ror32(x, shift) ==
    IF shift >= 8 THEN ror32(<<x[2], x[3], x[4], x[1]>>, shift - 8)
    ELSE LET b(i) == (x[i] \div Pow2(shift))
                        + (x[(i % 4) + 1] % Pow2(shift)) * Pow2(8 - shift)
         IN <<b(1), b(2), b(3), b(4)>>

\* a right shift that drops the bits a rotation would carry round
ror32_ShiftOnly(x, shift) ==
    LET b(i) == (x[i] \div Pow2(shift))
                    + (IF i = 4 THEN 0 ELSE (x[i + 1] % Pow2(shift)) * Pow2(8 - shift))
    IN <<b(1), b(2), b(3), b(4)>>

----------------------------------------------------------------------------
(* The loan hash *)

\* int32_t value = 0x70093A (line 437)
LoanHashSeed == Word32(7342394)

\* the hash with the first two rotation amounts exchanged
GetLoanHash_SwappedRotations(initialCash, bankLoan, maxBankLoan) ==
    LET v0 == LoanHashSeed
        v1 == Sub32(v0, initialCash)
        v2 == ror32(v1, 7)
        v3 == Sub32(v2, bankLoan)
        v4 == ror32(v3, 5)
        v5 == Add32(v4, maxBankLoan)
        v6 == ror32(v5, 3)
    IN v6

\* the hash with shifts where the code rotates
GetLoanHash_Shifts(initialCash, bankLoan, maxBankLoan) ==
    LET v0 == LoanHashSeed
        v1 == Sub32(v0, initialCash)
        v2 == ror32_ShiftOnly(v1, 5)
        v3 == Sub32(v2, bankLoan)
        v4 == ror32_ShiftOnly(v3, 7)
        v5 == Add32(v4, maxBankLoan)
        v6 == ror32_ShiftOnly(v5, 3)
    IN v6

\* S6Exporter::GetLoanHash, statement by statement
GetLoanHash(initialCash, bankLoan, maxBankLoan) ==
    LET v0 == LoanHashSeed
        v1 == Sub32(v0, initialCash)
        v2 == ror32(v1, 5)
        v3 == Sub32(v2, bankLoan)
        v4 == ror32(v3, 7)
        v5 == Add32(v4, maxBankLoan)
        v6 == ror32(v5, 3)
    IN v6

\* the hash taken with the starting cash and the loan exchanged
ExportFinancials_HashArgumentsExchanged(s, initialCash, bankLoan, maxBankLoan) ==
    [s EXCEPT !.initial_cash = initialCash,
              !.current_loan = bankLoan,
              !.maximum_loan = maxBankLoan,
              !.loan_hash = GetLoanHash(bankLoan, initialCash, maxBankLoan)]

\* Export's copies of the three scalars and of their hash (lines 205, 206,
\* 259 and 306)
ExportFinancials(s, initialCash, bankLoan, maxBankLoan) ==
    [s EXCEPT !.initial_cash = initialCash,
              !.current_loan = bankLoan,
              !.maximum_loan = maxBankLoan,
              !.loan_hash = GetLoanHash(initialCash, bankLoan, maxBankLoan)]

----------------------------------------------------------------------------
(* The stream abstraction (IStream): sequential write at the position,      *)
(* absolute seek, length query, read-back.                                  *)

\* IStream::Write: overwrite from the position on, growing the stream
StreamWrite(st, bytes) ==
    LET n == Len(bytes)
        p == st.pos
        newLen == Max(Len(st.data), p + n)
    IN [data |-> [i \in 1..newLen |->
                    IF i > p /\ i <= p + n THEN bytes[i - p] ELSE st.data[i]],
        pos |-> p + n]

\* IStream::GetLength
GetLength(st) == Len(st.data)

\* IStream::SetPosition
SetPosition(st, p) == [st EXCEPT !.pos = p]

\* IStream::ReadArray<uint8_t>(n): the n bytes from the position on
ReadArray(st, n) == SubSeq(st.data, st.pos + 1, st.pos + n)

\* the 32-bit sum of bytes[lo..hi], summed by halves
RECURSIVE ByteSum32(_, _, _)
ByteSum32(bytes, lo, hi) ==
    IF lo = hi THEN <<bytes[lo], 0, 0, 0>>
    ELSE LET mid == (lo + hi) \div 2
         IN Add32(ByteSum32(bytes, lo, mid), ByteSum32(bytes, mid + 1, hi))

\* sawyercoding_calculate_checksum: the 32-bit sum of the bytes
sawyercoding_calculate_checksum(bytes) ==
    IF bytes = <<>> THEN <<0, 0, 0, 0>> ELSE ByteSum32(bytes, 1, Len(bytes))

\* the ROTATE encoding: byte i is rotated left by 1, 3, 5, 7, 1, ... bits
EncodeRotate(payload) ==
    [i \in 1..Len(payload) |-> Rol8(payload[i], 1 + 2 * ((i - 1) % 4))]

\* the RLE encoding, every payload of the model emitted as one literal run:
\* a count byte (length - 1), then the bytes
EncodeRLE(payload) ==
    IF payload = <<>> THEN <<>> ELSE <<Len(payload) - 1>> \o payload

\* SawyerChunkWriter::WriteChunk: chunk header (encoding, encoded length),
\* then the encoded bytes
ChunkBytes(payload, enc) ==
    LET body == IF enc = ENC_ROTATE THEN EncodeRotate(payload) ELSE EncodeRLE(payload)
    IN <<enc>> \o LE(Len(body), 4) \o body

\* IObjectRepository::WritePackedObjects: every object of the list, in order
PackedObjectBytes(list) == list

----------------------------------------------------------------------------
(* The snapshot record *)

\* rct_s6_header as it lies in memory
HeaderBytes(h) ==
    <<h.type, h.classic_flag>> \o LE(h.num_packed_objects, 2)
        \o LE(h.version, 4) \o LE(h.magic_number, 4)

ZeroHeader ==
    [type |-> 0, classic_flag |-> 0, num_packed_objects |-> 0,
     version |-> 0, magic_number |-> 0]

RideIds == 0..(RCT12_MAX_RIDES_IN_PARK - 1)
StationIds == 0..(RCT12_MAX_STATIONS_PER_RIDE - 1)
MeasurementSlots == 0..(RCT12_RIDE_MEASUREMENT_MAX_ITEMS - 1)

\* an rct_xy8 holding the 16-bit value xy: x is the low byte, y the high byte
XY8(xy) == [x |-> xy % 256, y |-> xy \div 256]

\* a zero-filled rct2_ride
ZeroRide ==
    [type |-> 0,
     measurement_index |-> 0,
     inversions |-> 0,
     entrances |-> [i \in StationIds |-> XY8(0)],
     exits |-> [i \in StationIds |-> XY8(0)]]

\* a zero-filled RCT12RideMeasurement
ZeroRideMeasurement ==
    [ride_index |-> 0, flags |-> 0, last_use_tick |-> 0]

PeepSpawnSlots == 0..(RCT12_MAX_PEEP_SPAWNS - 1)
ParkEntranceSlots == 0..(RCT12_MAX_PARK_ENTRANCES - 1)

\* S6Exporter::S6Exporter: memset(&_s6, 0, sizeof(_s6))
\* a packed bit array is a sequence of 32-bit words; a word is held as the
\* set of its set bit positions (0 = least significant)
WordsFor(count) == (count + 31) \div 32

\* researched_ride_types has more words than its domain needs;
\* the other two arrays fit their domains
ResearchedRideTypesWords == WordsFor(RIDE_TYPE_COUNT) + 1
ResearchedRideEntriesWords == WordsFor(MAX_RIDE_OBJECTS)
ResearchedSceneryItemsWords == WordsFor(RCT2_MAX_RESEARCHED_SCENERY_ITEMS)

SpriteSlots == 0..(RCT2_MAX_SPRITES - 1)

\* an exported sprite: the common header (RCT12SpriteBase) and, laid over
\* one another in the format, the fields that each kind adds to it
ZeroSprite ==
    [sprite_identifier |-> 0, type |-> 0, sprite_index |-> 0, x |-> 0, flags |-> 0,
     vehicle |-> 0, peep |-> 0, misc |-> 0, litter |-> 0]

\* a live sprite: the common header and what its kind adds to it
LiveSprite(identifier, type, index, extra) ==
    [sprite_identifier |-> identifier, type |-> type, sprite_index |-> index,
     x |-> 32 * (index + 1), flags |-> 1, extra |-> extra]

\* a sprite slot on the null list, already reset
UnusedSprite(index) ==
    [sprite_identifier |-> SPRITE_IDENTIFIER_NULL, type |-> 0, sprite_index |-> index,
     x |-> LOCATION_NULL, flags |-> 0, extra |-> 0]

S6Zero ==
    [header |-> ZeroHeader,
     peep_spawns |-> [i \in PeepSpawnSlots |-> [x |-> 0, y |-> 0, z |-> 0, direction |-> 0]],
     park_entrance_x |-> [i \in ParkEntranceSlots |-> 0],
     park_entrance_y |-> [i \in ParkEntranceSlots |-> 0],
     park_entrance_z |-> [i \in ParkEntranceSlots |-> 0],
     park_entrance_direction |-> [i \in ParkEntranceSlots |-> 0],
     rides |-> [i \in RideIds |-> ZeroRide],
     ride_measurements |-> [i \in MeasurementSlots |-> ZeroRideMeasurement],
     sprites |-> [i \in SpriteSlots |-> ZeroSprite],
     fixups |-> <<>>,
     initial_cash |-> <<0, 0, 0, 0>>,
     current_loan |-> <<0, 0, 0, 0>>,
     maximum_loan |-> <<0, 0, 0, 0>>,
     loan_hash |-> <<0, 0, 0, 0>>,
     researched_ride_types |-> [q \in 0..(ResearchedRideTypesWords - 1) |-> {}],
     researched_ride_entries |-> [q \in 0..(ResearchedRideEntriesWords - 1) |-> {}],
     researched_scenery_items |-> [q \in 0..(ResearchedSceneryItemsWords - 1) |-> {}],
     info |-> 0,
     objects |-> 0,
     elapsed_months |-> 0,
     tile_elements |-> 0,
     next_free_tile_element_pointer_index |-> 0,
     guests_in_park |-> 0,
     last_guests_in_park |-> 0,
     park_rating |-> 0,
     active_research_types |-> 0,
     current_expenditure |-> 0,
     park_value |-> 0,
     completed_company_value |-> 0,
     game_version_number |-> 0]

\* the eight regions of the scenario tail (lines 120-127), each by the field
\* it starts at; the payload of the model is that leading field
ScenarioTail(s) ==
    << [chunk |-> "tail_next_free_tile_element_pointer_index", length |-> 2560076,
        payload |-> LE(s.next_free_tile_element_pointer_index, 2)],
       [chunk |-> "tail_guests_in_park", length |-> 4,
        payload |-> LE(s.guests_in_park, 2)],
       [chunk |-> "tail_last_guests_in_park", length |-> 8,
        payload |-> LE(s.last_guests_in_park, 2)],
       [chunk |-> "tail_park_rating", length |-> 2,
        payload |-> LE(s.park_rating, 2)],
       [chunk |-> "tail_active_research_types", length |-> 1082,
        payload |-> LE(s.active_research_types, 1)],
       [chunk |-> "tail_current_expenditure", length |-> 16,
        payload |-> LE(s.current_expenditure, 2)],
       [chunk |-> "tail_park_value", length |-> 4,
        payload |-> LE(s.park_value, 2)],
       [chunk |-> "tail_completed_company_value", length |-> 483816,
        payload |-> LE(s.completed_company_value, 2)] >>

RECURSIVE ConcatPayloads(_)
ConcatPayloads(q) ==
    IF q = <<>> THEN <<>> ELSE Head(q).payload \o ConcatPayloads(Tail(q))

\* the single tail of a saved game (line 132): everything from
\* next_free_tile_element_pointer_index on, 0x2E8570 bytes
GameTail(s) ==
    [chunk |-> "tail_everything", length |-> 3048816,
     payload |-> ConcatPayloads(ScenarioTail(s))]

----------------------------------------------------------------------------
(* Export: peep spawns and park entrances *)

\* (uint8_t)v
ToUint8(v) == v % 256

\* (uint16_t)v, (int16_t)v
ToUint16(v) == v % 65536
ToInt16(v) == ((v + 32768) % 65536) - 32768

\* the spawn table with the slots past the live list left as they were
ExportPeepSpawns_NoFill(s, spawns) ==
    [s EXCEPT !.peep_spawns =
        [i \in PeepSpawnSlots |->
            IF Len(spawns) > i
            THEN [x |-> ToUint16(spawns[i + 1].x),
                  y |-> ToUint16(spawns[i + 1].y),
                  z |-> ToUint8(spawns[i + 1].z \div 16),
                  direction |-> spawns[i + 1].direction]
            ELSE s.peep_spawns[i]]]

\* S6Exporter::ExportPeepSpawns
ExportPeepSpawns(s, spawns) ==
    [s EXCEPT !.peep_spawns =
        [i \in PeepSpawnSlots |->
            IF Len(spawns) > i
            THEN [x |-> ToUint16(spawns[i + 1].x),
                  y |-> ToUint16(spawns[i + 1].y),
                  z |-> ToUint8(spawns[i + 1].z \div 16),
                  direction |-> spawns[i + 1].direction]
            ELSE [x |-> PEEP_SPAWN_UNDEFINED, y |-> PEEP_SPAWN_UNDEFINED,
                  z |-> 0, direction |-> 0]]]

\* lines 333-344: the entrance that slot i takes
ParkEntranceFor(entrances, i) ==
    IF Len(entrances) > i
    THEN entrances[i + 1]
    ELSE [x |-> LOCATION_NULL, y |-> LOCATION_NULL, z |-> 0, direction |-> 0]

\* lines 333-344
ExportParkEntrances(s, entrances) ==
    [s EXCEPT
        !.park_entrance_x = [i \in ParkEntranceSlots |-> ToInt16(ParkEntranceFor(entrances, i).x)],
        !.park_entrance_y = [i \in ParkEntranceSlots |-> ToInt16(ParkEntranceFor(entrances, i).y)],
        !.park_entrance_z = [i \in ParkEntranceSlots |-> ToInt16(ParkEntranceFor(entrances, i).z)],
        !.park_entrance_direction =
            [i \in ParkEntranceSlots |-> ParkEntranceFor(entrances, i).direction]]

----------------------------------------------------------------------------
(* Export: rides and ride measurements *)

\* TileCoordsXYZD::isNull
IsNullLocation(loc) == loc.x = COORDS_NULL

\* lines 496-506: a station's entrance or exit
ExportStationLocation(loc) ==
    IF IsNullLocation(loc)
    THEN XY8(RCT_XY8_UNDEFINED)
    ELSE [x |-> ToUint8(loc.x), y |-> ToUint8(loc.y)]

\* S6Exporter::ExportRide: the record starts zero-filled and the fields
\* assigned are copied; measurement_index is not among them
ExportRide(src) ==
    [ZeroRide EXCEPT
        !.type = src.type,
        !.inversions =
            ToUint8(BitOr(IF src.type = RIDE_TYPE_MINI_GOLF
                          THEN ToUint8(Min(src.holes, RCT12_MAX_GOLF_HOLES))
                          ELSE ToUint8(Min(src.inversions, RCT12_MAX_INVERSIONS)),
                          src.sheltered_eighths * Pow2(5))),
        !.entrances = [i \in StationIds |-> ExportStationLocation(src.entrances[i])],
        !.exits = [i \in StationIds |-> ExportStationLocation(src.exits[i])]]

\* S6Exporter::ExportRides
ExportRides(s, rides) ==
    [s EXCEPT !.rides =
        [index \in RideIds |->
            IF rides[index].type = RIDE_TYPE_NULL
            THEN [ZeroRide EXCEPT !.type = RIDE_TYPE_NULL]
            ELSE ExportRide(rides[index])]]

\* lines 690-698: the measurements of the rides that own one, by ride id
RECURSIVE CollectRideMeasurements(_, _)
CollectRideMeasurements(rides, i) ==
    IF i >= RCT12_MAX_RIDES_IN_PARK THEN <<>>
    ELSE (IF rides[i].measurement # <<>> THEN <<rides[i].measurement[1]>> ELSE <<>>)
            \o CollectRideMeasurements(rides, i + 1)

\* the comparator turned round: least recently used first
RecencyBefore_Reversed(a, b) == a.last_use_tick < b.last_use_tick

\* lines 704-706: the comparator handed to std::sort
RecencyBefore(a, b) == a.last_use_tick > b.last_use_tick

SeqRange(q) == {q[i] : i \in 1..Len(q)}

\* std::sort: every arrangement in which no element stands before one that
\* the comparator puts first (std::sort is not stable, so ties may land in
\* any order)
RECURSIVE SortOutcomes(_)
SortOutcomes(S) ==
    IF S = {} THEN {<<>>}
    ELSE UNION {{<<m>> \o r : r \in SortOutcomes(S \ {m})} :
                    m \in {x \in S : \A y \in S : ~RecencyBefore(y, x)}}

\* the list cut to the table's size without sorting it first
TrimByLRU_NoSort(q) ==
    IF Len(q) > RCT12_RIDE_MEASUREMENT_MAX_ITEMS
    THEN {SubSeq(q, 1, RCT12_RIDE_MEASUREMENT_MAX_ITEMS)}
    ELSE {q}

\* lines 700-708: the lists std::sort and resize can leave
TrimByLRU(q) ==
    IF Len(q) > RCT12_RIDE_MEASUREMENT_MAX_ITEMS
    THEN {SubSeq(r, 1, RCT12_RIDE_MEASUREMENT_MAX_ITEMS) : r \in SortOutcomes(SeqRange(q))}
    ELSE {q}

\* S6Exporter::ExportRideMeasurement
ExportRideMeasurement(dst, src) ==
    [dst EXCEPT !.flags = src.flags, !.last_use_tick = src.last_use_tick]

\* lines 710-721: slot i takes the i-th kept measurement and its owner's
\* record takes i; no other slot and no other ride is touched
ConvertRideMeasurements(s, kept) ==
    LET n == Len(kept)
        slots == 0..(Max(n, RCT12_RIDE_MEASUREMENT_MAX_ITEMS) - 1)
        owner(i) == kept[i + 1].ride_id
    IN [s EXCEPT
          !.ride_measurements =
              [i \in slots |->
                  IF i < n
                  THEN [ExportRideMeasurement(s.ride_measurements[i], kept[i + 1])
                            EXCEPT !.ride_index = owner(i)]
                  ELSE s.ride_measurements[i]],
          !.rides =
              [r \in RideIds |->
                  IF \E i \in 0..(n - 1) : owner(i) = r
                  THEN [s.rides[r] EXCEPT
                          !.measurement_index = CHOOSE i \in 0..(n - 1) : owner(i) = r]
                  ELSE s.rides[r]]]

\* S6Exporter::ExportRideMeasurements: the snapshots it can leave
ExportRideMeasurements(s, rides) ==
    {ConvertRideMeasurements(s, kept) : kept \in TrimByLRU(CollectRideMeasurements(rides, 0))}

----------------------------------------------------------------------------
(* Export: researched ride types, ride entries and scenery items *)

ride_type_is_invented(rideType) == rideType \in live.inventedRideTypes
ride_entry_is_invented(rideEntryIndex) == rideEntryIndex \in live.inventedRideEntries
scenery_is_invented(sceneryEntryIndex) == sceneryEntryIndex \in live.inventedSceneryItems

QuadIndex(i) == i \div 32     \* i >> 5
BitIndex(i) == i % 32         \* i & 0x1F

\* the loop without the std::fill that precedes it
PackInvented_NoFill(words, count, invented) ==
    [q \in DOMAIN words |->
        words[q] \cup {BitIndex(i) : i \in {j \in 0..(count - 1) :
                                               j \in invented /\ QuadIndex(j) = q}}]

\* std::fill(begin, end, false), then for every index below count whose
\* predicate holds: words[index >> 5] |= 1 << (index & 0x1F)
PackInvented(words, count, invented) ==
    LET cleared == [q \in DOMAIN words |-> {}]
    IN  [q \in DOMAIN words |->
            cleared[q] \cup {BitIndex(i) : i \in {j \in 0..(count - 1) :
                                                     j \in invented /\ QuadIndex(j) = q}}]

ExportResearchedRideTypes(s) ==
    [s EXCEPT !.researched_ride_types =
        PackInvented(@, RIDE_TYPE_COUNT,
                     {i \in 0..(RIDE_TYPE_COUNT - 1) : ride_type_is_invented(i)})]

ExportResearchedRideEntries(s) ==
    [s EXCEPT !.researched_ride_entries =
        PackInvented(@, MAX_RIDE_OBJECTS,
                     {i \in 0..(MAX_RIDE_OBJECTS - 1) : ride_entry_is_invented(i)})]

ExportResearchedSceneryItems(s) ==
    [s EXCEPT !.researched_scenery_items =
        PackInvented(@, RCT2_MAX_RESEARCHED_SCENERY_ITEMS,
                     {i \in 0..(RCT2_MAX_RESEARCHED_SCENERY_ITEMS - 1) : scenery_is_invented(i)})]

----------------------------------------------------------------------------
(* Export: sprites *)

\* resets every sprite on the null list: what the slot last held is wiped
sprite_clear_all_unused(l) ==
    [l EXCEPT !.sprites =
        [i \in DOMAIN @ |->
            IF @[i].sprite_identifier = SPRITE_IDENTIFIER_NULL THEN UnusedSprite(i) ELSE @[i]]]

ExportSpriteCommonProperties(dst, src) ==
    [dst EXCEPT !.sprite_identifier = src.sprite_identifier,
                !.type = src.type,
                !.sprite_index = src.sprite_index,
                !.x = ToInt16(src.x),
                !.flags = src.flags]

ExportSpriteVehicle(dst, src) ==
    [ExportSpriteCommonProperties(dst, src) EXCEPT !.vehicle = src.extra]

ExportSpritePeep(dst, src) ==
    [ExportSpriteCommonProperties(dst, src) EXCEPT !.peep = src.extra]

ExportSpriteLitter(dst, src) ==
    [ExportSpriteCommonProperties(dst, src) EXCEPT !.litter = src.extra]

\* the misc types that have a case of their own in ExportSpriteMisc
SupportedMiscTypes ==
    {SPRITE_MISC_STEAM_PARTICLE, SPRITE_MISC_MONEY_EFFECT,
     SPRITE_MISC_CRASHED_VEHICLE_PARTICLE, SPRITE_MISC_EXPLOSION_CLOUD,
     SPRITE_MISC_EXPLOSION_FLARE, SPRITE_MISC_CRASH_SPLASH,
     SPRITE_MISC_JUMPING_FOUNTAIN_WATER, SPRITE_MISC_JUMPING_FOUNTAIN_SNOW,
     SPRITE_MISC_BALLOON, SPRITE_MISC_DUCK}

\* every misc type routed to the default branch
ExportSpriteMisc_AllDefault(dst, src) == ExportSpriteCommonProperties(dst, src)

\* the common header, then the fields of the sub-type when it has a case
ExportSpriteMisc(dst, src) ==
    LET cdst == ExportSpriteCommonProperties(dst, src)
    IN  IF cdst.type \in SupportedMiscTypes
        THEN [cdst EXCEPT !.misc = src.extra]
        ELSE cdst

\* lines 830-852 without the log_warning: the exported record
ExportSprite(src) ==
    LET dst == ZeroSprite
    IN  CASE src.sprite_identifier = SPRITE_IDENTIFIER_NULL -> ExportSpriteCommonProperties(dst, src)
          [] src.sprite_identifier = SPRITE_IDENTIFIER_VEHICLE -> ExportSpriteVehicle(dst, src)
          [] src.sprite_identifier = SPRITE_IDENTIFIER_PEEP -> ExportSpritePeep(dst, src)
          [] src.sprite_identifier = SPRITE_IDENTIFIER_MISC -> ExportSpriteMisc(dst, src)
          [] src.sprite_identifier = SPRITE_IDENTIFIER_LITTER -> ExportSpriteLitter(dst, src)
          [] OTHER -> ExportSpriteCommonProperties(dst, src)

\* the warnings ExportSprite logs for one sprite (lines 850 and 1146)
SpriteWarnings(src) ==
    CASE src.sprite_identifier = SPRITE_IDENTIFIER_MISC ->
            IF src.type \in SupportedMiscTypes THEN <<>> ELSE <<"warn_misc_type">>
      [] src.sprite_identifier \in {SPRITE_IDENTIFIER_NULL, SPRITE_IDENTIFIER_VEHICLE,
                                    SPRITE_IDENTIFIER_PEEP, SPRITE_IDENTIFIER_LITTER} -> <<>>
      [] OTHER -> <<"warn_identifier">>

\* the warnings of the loop over all slots, in slot order
RECURSIVE AllSpriteWarnings(_, _)
AllSpriteWarnings(sprites, i) ==
    IF i >= RCT2_MAX_SPRITES THEN <<>>
    ELSE SpriteWarnings(sprites[i]) \o AllSpriteWarnings(sprites, i + 1)

\* the loop ended at the first sprite of no known identifier
ExportSprites_StopAtUnknown(s, sprites) ==
    LET known == {SPRITE_IDENTIFIER_NULL, SPRITE_IDENTIFIER_VEHICLE, SPRITE_IDENTIFIER_PEEP,
                  SPRITE_IDENTIFIER_MISC, SPRITE_IDENTIFIER_LITTER}
    IN  [s EXCEPT !.sprites =
            [i \in SpriteSlots |->
                IF \E j \in 0..(i - 1) : sprites[j].sprite_identifier \notin known
                THEN s.sprites[i]
                ELSE ExportSprite(sprites[i])]]

\* S6Exporter::ExportSprites on the sprites as sprite_clear_all_unused left them
ExportSprites(s, sprites) ==
    [s EXCEPT !.sprites = [i \in SpriteSlots |-> ExportSprite(sprites[i])]]

----------------------------------------------------------------------------
(* Export: the checks of the live sprite lists that open it *)

\* the index of the first spatial-index list that holds a cycle, or -1
check_for_spatial_index_cycles(l) == l.spatialIndexCycle

\* the index of the first sprite list that holds a cycle, or -1
check_for_sprite_list_cycles(l) == l.spriteListCycle

\* relinks every disjoint null sprite into the null list
fix_disjoint_sprites(l) == [l EXCEPT !.disjointNullSprites = 0]

----------------------------------------------------------------------------
(* S6Exporter::Save *)

\* the tile-grid chunk and the tail written in the wrong order
SaveOrder_TailBeforeTiles ==
    <<"header", "info", "packed", "objects", "misc", "tail", "tiles", "checksum", "done">>

\* the statements of Save in program order (lines 92-146)
SaveOrder ==
    <<"header", "info", "packed", "objects", "misc", "tiles", "tail", "checksum", "done">>

\* the position that follows pc
SaveAfter(pc) ==
    LET i == CHOOSE k \in 1..Len(SaveOrder) : SaveOrder[k] = pc
    IN SaveOrder[i + 1]

\* the two header types exchanged
HeaderType_Swapped(scenario) == IF scenario THEN S6_TYPE_SAVEDGAME ELSE S6_TYPE_SCENARIO

\* line 83
HeaderType(scenario) == IF scenario THEN S6_TYPE_SCENARIO ELSE S6_TYPE_SAVEDGAME

\* lines 83-88: the header is rebuilt on every call
SaveHeaderFields(s, scenario, list) ==
    [s EXCEPT !.header = [type |-> HeaderType(scenario),
                          classic_flag |-> 0,
                          num_packed_objects |-> Len(list) % 65536,
                          version |-> S6_RCT2_VERSION,
                          magic_number |-> S6_MAGIC_NUMBER],
              !.game_version_number = GAME_VERSION_NUMBER]

\* one write to the stream, logged with the byte range it covers
Emit(name, bytes) ==
    /\ stream' = StreamWrite(stream, bytes)
    /\ writeLog' = Append(writeLog,
                          [chunk |-> name, from |-> stream.pos, to |-> stream.pos + Len(bytes)])

NoEmit == UNCHANGED <<stream, writeLog>>

\* the streams a caller may hand to Save: a fresh file, an open stream that
\* already holds a few bytes, positioned at its start or at its end, or one
\* positioned at its start that holds more bytes than a Save writes
InitialStreams ==
    {[data |-> <<>>, pos |-> 0]}
        \cup UNION {{[data |-> [i \in 1..n |-> 170], pos |-> p] : p \in {0, n}} : n \in 1..MaxJunk}
        \cup {[data |-> [i \in 1..LongStreamLength |-> 170], pos |-> 0]}

\* Save(stream, isScenario), up to the first write
SaveEnter(scenario) ==
    /\ savePc \in {"idle", "done", "failed"}
    /\ saveCalls < MaxSaves
    /\ \E st \in InitialStreams :
        /\ stream' = st
        /\ streamAtEntry' = st
    /\ s6' = SaveHeaderFields(s6, scenario, ExportObjectsList)
    /\ isScenario' = scenario
    /\ savePc' = SaveOrder[1]
    /\ tailIdx' = 1
    /\ writeLog' = <<>>
    /\ saveCalls' = saveCalls + 1
    /\ UNCHANGED <<ExportObjectsList, RemoveTracklessRides, headerOf, liveVars, exportVars, callerVars>>

\* SaveGame(IStream*): lines 65-68
SaveGame == SaveEnter(FALSE)

\* SaveScenario(IStream*): lines 76-79
SaveScenario == SaveEnter(TRUE)

\* 0: Write header chunk
SaveWriteHeader ==
    /\ savePc = "header"
    /\ Emit("header", ChunkBytes(HeaderBytes(s6.header), ENC_ROTATE))
    /\ headerOf' = [headerOf EXCEPT ![isScenario] = <<s6.header>>]
    /\ savePc' = SaveAfter("header")
    /\ UNCHANGED <<exporterVars, isScenario, tailIdx, streamAtEntry, saveCalls, liveVars, exportVars, callerVars>>

\* 1: Write scenario info chunk
SaveWriteInfo ==
    /\ savePc = "info"
    /\ IF s6.header.type = S6_TYPE_SCENARIO
       THEN Emit("info", ChunkBytes(LE(s6.info, 1), ENC_ROTATE))
       ELSE NoEmit
    /\ savePc' = SaveAfter("info")
    /\ UNCHANGED <<exporterVars, isScenario, tailIdx, streamAtEntry, saveCalls, headerOf, liveVars, exportVars, callerVars>>

\* 2: Write packed objects
SaveWritePackedObjects ==
    /\ savePc = "packed"
    /\ IF s6.header.num_packed_objects > 0
       THEN Emit("packed", PackedObjectBytes(ExportObjectsList))
       ELSE NoEmit
    /\ savePc' = SaveAfter("packed")
    /\ UNCHANGED <<exporterVars, isScenario, tailIdx, streamAtEntry, saveCalls, headerOf, liveVars, exportVars, callerVars>>

\* 3: Write available objects chunk
SaveWriteObjects ==
    /\ savePc = "objects"
    /\ Emit("objects", ChunkBytes(LE(s6.objects, 1), ENC_ROTATE))
    /\ savePc' = SaveAfter("objects")
    /\ UNCHANGED <<exporterVars, isScenario, tailIdx, streamAtEntry, saveCalls, headerOf, liveVars, exportVars, callerVars>>

\* 4: Misc fields (data, rand...) chunk
SaveWriteMisc ==
    /\ savePc = "misc"
    /\ Emit("misc", ChunkBytes(LE(s6.elapsed_months, 2), ENC_RLECOMPRESSED))
    /\ savePc' = SaveAfter("misc")
    /\ UNCHANGED <<exporterVars, isScenario, tailIdx, streamAtEntry, saveCalls, headerOf, liveVars, exportVars, callerVars>>

\* 5: Map elements + sprites and other fields chunk
SaveWriteTiles ==
    /\ savePc = "tiles"
    /\ Emit("tiles", ChunkBytes(LE(s6.tile_elements, 1), ENC_RLECOMPRESSED))
    /\ savePc' = SaveAfter("tiles")
    /\ UNCHANGED <<exporterVars, isScenario, tailIdx, streamAtEntry, saveCalls, headerOf, liveVars, exportVars, callerVars>>

\* 6 to 13 for a scenario, one chunk a step; 6 alone for a saved game
SaveWriteTail ==
    /\ savePc = "tail"
    /\ IF s6.header.type = S6_TYPE_SCENARIO
       THEN LET c == ScenarioTail(s6)[tailIdx]
            IN /\ Emit(c.chunk, ChunkBytes(c.payload, ENC_RLECOMPRESSED))
               /\ tailIdx' = tailIdx + 1
               /\ savePc' = IF tailIdx = Len(ScenarioTail(s6)) THEN SaveAfter("tail") ELSE "tail"
       ELSE LET c == GameTail(s6)
            IN /\ Emit(c.chunk, ChunkBytes(c.payload, ENC_RLECOMPRESSED))
               /\ tailIdx' = tailIdx
               /\ savePc' = SaveAfter("tail")
    /\ UNCHANGED <<exporterVars, isScenario, streamAtEntry, saveCalls, headerOf, liveVars, exportVars, callerVars>>

\* the checksum written without seeking back to the end after the read-back
SaveWriteChecksum_NoSeekToEnd ==
    /\ savePc = "checksum"
    /\ LET fileSize == GetLength(stream)
           data == ReadArray(SetPosition(stream, 0), fileSize)
           checksum == sawyercoding_calculate_checksum(data)
       IN /\ stream' = StreamWrite(SetPosition(stream, 0), checksum)
          /\ writeLog' = Append(writeLog, [chunk |-> "checksum", from |-> 0, to |-> 4])
    /\ savePc' = SaveAfter("checksum")
    /\ UNCHANGED <<exporterVars, isScenario, tailIdx, streamAtEntry, saveCalls, headerOf, liveVars, exportVars, callerVars>>

\* lines 135-146: read the stream back from position 0, sum it, and write the
\* sum at the stream's length
SaveWriteChecksum ==
    /\ savePc = "checksum"
    /\ LET fileSize == GetLength(stream)
           data == ReadArray(SetPosition(stream, 0), fileSize)
           checksum == sawyercoding_calculate_checksum(data)
       IN /\ stream' = StreamWrite(SetPosition(stream, fileSize), checksum)
          /\ writeLog' = Append(writeLog,
                                [chunk |-> "checksum", from |-> fileSize, to |-> fileSize + 4])
    /\ savePc' = SaveAfter("checksum")
    /\ UNCHANGED <<exporterVars, isScenario, tailIdx, streamAtEntry, saveCalls, headerOf, liveVars, exportVars, callerVars>>

\* a write, seek or read of the stream throws: Save ends there
SaveIOFailure ==
    /\ savePc \in {"header", "info", "packed", "objects", "misc", "tiles", "tail", "checksum"}
    /\ savePc' = "failed"
    /\ UNCHANGED <<exporterVars, stream, isScenario, tailIdx, writeLog, streamAtEntry,
                   saveCalls, headerOf, liveVars, exportVars, callerVars>>

SaveStep ==
    \/ SaveWriteHeader
    \/ SaveWriteInfo
    \/ SaveWritePackedObjects
    \/ SaveWriteObjects
    \/ SaveWriteMisc
    \/ SaveWriteTiles
    \/ SaveWriteTail
    \/ SaveWriteChecksum
    \/ SaveIOFailure

----------------------------------------------------------------------------
(* Initial states shared by the specifications *)

NullLocation == [x |-> COORDS_NULL, y |-> 0]

\* a live ride without stations placed
LiveRide(id, type, measurement) ==
    [id |-> id, type |-> type, measurement |-> measurement,
     inversions |-> 0, holes |-> 0, sheltered_eighths |-> 0,
     entrances |-> [i \in StationIds |-> NullLocation],
     exits |-> [i \in StationIds |-> NullLocation]]

\* scenario_save's flags (S6_SAVE_FLAG_EXPORT, _SCENARIO, _AUTOMATIC)
SaveFlags == [export : BOOLEAN, scenario : BOOLEAN, automatic : BOOLEAN]

\* no scenario_save in progress: nothing created, destroyed or redrawn, the
\* destination untouched, the screen some frames old
NoCall ==
    [pc |-> "none",
     flags |-> [export |-> FALSE, scenario |-> FALSE, automatic |-> FALSE],
     result |-> FALSE,
     exporters |-> 0, deletes |-> 0, invalidations |-> 0,
     file |-> "untouched",
     gScreenAge |-> 7]

\* a park with no rides, spawns or entrances and well-formed sprite lists
EmptyPark ==
    [gRideList      |-> [i \in RideIds |-> LiveRide(i, RIDE_TYPE_NULL, <<>>)],
     gPeepSpawns    |-> <<>>,
     gParkEntrances |-> <<>>,
     inventedRideTypes    |-> {},
     inventedRideEntries  |-> {},
     inventedSceneryItems |-> {},
     spatialIndexCycle    |-> -1,
     spriteListCycle      |-> -1,
     disjointNullSprites  |-> 0,
     gInitialCash         |-> <<0, 0, 0, 0>>,
     gBankLoan            |-> <<0, 0, 0, 0>>,
     gMaxBankLoan         |-> <<0, 0, 0, 0>>,
     sprites              |-> [i \in SpriteSlots |-> UnusedSprite(i)]]

\* Export's locals before lines 151-153 assign them (nothing reads them
\* earlier); live_at_entry is history, not a local: the live state as the
\* running Export found it
NoFrame ==
    [spatial_cycle |-> -1, regular_cycle |-> -1, disjoint_sprites_count |-> 0,
     live_at_entry |-> EmptyPark]

\* the fresh exporter scenario_save creates
FreshExporter ==
    /\ s6 = S6Zero
    /\ ExportObjectsList = <<>>
    /\ RemoveTracklessRides = TRUE

SaveIdle ==
    /\ stream = [data |-> <<>>, pos |-> 0]
    /\ streamAtEntry = [data |-> <<>>, pos |-> 0]
    /\ savePc = "idle"
    /\ isScenario = FALSE
    /\ tailIdx = 1
    /\ writeLog = <<>>
    /\ saveCalls = 0
    /\ headerOf = [m \in BOOLEAN |-> <<>>]

----------------------------------------------------------------------------
(* An exporter that holds a finished snapshot and is saved repeatedly *)

\* snapshots as Export leaves them: the header still zero, the payload
\* fields copied from some live state
ExportedSnapshots ==
    {[S6Zero EXCEPT !.info = b, !.objects = 255 - b, !.elapsed_months = 256 + b,
                    !.tile_elements = b, !.guests_in_park = b,
                    !.park_rating = 999, !.completed_company_value = 2 * b] : b \in {0, 7}}

PackableObjectLists ==
    UNION {[1..n -> {17, 200}] : n \in 0..MaxPacked}

InitSave ==
    /\ s6 \in ExportedSnapshots
    /\ ExportObjectsList \in PackableObjectLists
    /\ RemoveTracklessRides = FALSE
    /\ stream = [data |-> <<>>, pos |-> 0]
    /\ streamAtEntry = [data |-> <<>>, pos |-> 0]
    /\ savePc = "idle"
    /\ isScenario = FALSE
    /\ tailIdx = 1
    /\ writeLog = <<>>
    /\ saveCalls = 0
    /\ headerOf = [m \in BOOLEAN |-> <<>>]
    /\ live = EmptyPark
    /\ exportPc = "done"
    /\ exportFrame = NoFrame
    /\ exportLog = <<>>
    /\ scenarioSave = NoCall

NextSave ==
    \/ SaveGame
    \/ SaveScenario
    \/ SaveWriteHeader
    \/ SaveWriteInfo
    \/ SaveWritePackedObjects
    \/ SaveWriteObjects
    \/ SaveWriteMisc
    \/ SaveWriteTiles
    \/ SaveWriteTail
    \/ SaveWriteChecksum
    \/ SaveIOFailure

SpecSave == InitSave /\ [][NextSave]_vars

----------------------------------------------------------------------------
(* Export of rides and ride measurements over all live ride lists *)

\* a ride slot by choice c: unused but still owning the measurement of the
\* ride it held (-3), unused (-2), a ride without a measurement (-1), or a
\* ride whose measurement was last used at tick c
LiveRideFor(i, c) ==
    IF c = -3 THEN LiveRide(i, RIDE_TYPE_NULL,
                            <<[ride_id |-> i, flags |-> 1, last_use_tick |-> MaxTick]>>)
    ELSE IF c = -2 THEN LiveRide(i, RIDE_TYPE_NULL, <<>>)
    ELSE IF c = -1 THEN LiveRide(i, 5, <<>>)
    ELSE LiveRide(i, 5, <<[ride_id |-> i, flags |-> 1, last_use_tick |-> c]>>)

RidesWithMeasurements ==
    {[i \in RideIds |-> LiveRideFor(i, c[i])] : c \in [RideIds -> (-3)..MaxTick]}

InitRides ==
    /\ FreshExporter
    /\ SaveIdle
    /\ live \in {[EmptyPark EXCEPT !.gRideList = rides] : rides \in RidesWithMeasurements}
    /\ exportPc = "rides"
    /\ exportFrame = NoFrame
    /\ exportLog = <<>>
    /\ scenarioSave = NoCall

\* the two steps exchanged: the rides exported after the measurements
GatherRides_RidesLast ==
    /\ exportPc = "rides"
    /\ s6' \in {ExportRides(m, gRideList) : m \in ExportRideMeasurements(s6, gRideList)}
    /\ exportPc' = "done"
    /\ UNCHANGED <<exportFrame, exportLog>>
    /\ UNCHANGED <<ExportObjectsList, RemoveTracklessRides, saveVars, liveVars, callerVars>>

\* Export's two steps for rides (line 351, then line 363)
GatherRides ==
    /\ exportPc = "rides"
    /\ s6' \in ExportRideMeasurements(ExportRides(s6, gRideList), gRideList)
    /\ exportPc' = "done"
    /\ UNCHANGED <<exportFrame, exportLog>>
    /\ UNCHANGED <<ExportObjectsList, RemoveTracklessRides, saveVars, liveVars, callerVars>>

NextRides == GatherRides

SpecRides == InitRides /\ [][NextRides]_vars

----------------------------------------------------------------------------
(* Properties of Save *)

LogNames == {writeLog[i].chunk : i \in 1..Len(writeLog)}

ScenarioTailNames ==
    {"tail_next_free_tile_element_pointer_index", "tail_guests_in_park",
     "tail_last_guests_in_park", "tail_park_rating", "tail_active_research_types",
     "tail_current_expenditure", "tail_park_value", "tail_completed_company_value"}

\* the place of a write in the persisted layout
LayoutRank(name) ==
    CASE name = "header" -> 1
      [] name = "info" -> 2
      [] name = "packed" -> 3
      [] name = "objects" -> 4
      [] name = "misc" -> 5
      [] name = "tiles" -> 6
      [] name = "tail_everything" -> 7
      [] name = "tail_next_free_tile_element_pointer_index" -> 7
      [] name = "tail_guests_in_park" -> 8
      [] name = "tail_last_guests_in_park" -> 9
      [] name = "tail_park_rating" -> 10
      [] name = "tail_active_research_types" -> 11
      [] name = "tail_current_expenditure" -> 12
      [] name = "tail_park_value" -> 13
      [] name = "tail_completed_company_value" -> 14
      [] name = "checksum" -> 15

TailWritten ==
    \/ "tail_everything" \in LogNames
    \/ ScenarioTailNames \subseteq LogNames

\* C1: in every Save call the writes come in the layout's order: header, info
\* (if present), packed objects (if present), object table, 16-byte scalars,
\* tile grid, tail chunk(s), and only then the checksum; nothing is written
\* twice and nothing after the checksum.
C1_WritesInLayoutOrder ==
    /\ \A i, j \in 1..Len(writeLog) :
          i < j => LayoutRank(writeLog[i].chunk) < LayoutRank(writeLog[j].chunk)
    /\ "checksum" \in LogNames =>
          /\ {"header", "objects", "misc", "tiles"} \subseteq LogNames
          /\ TailWritten
    /\ savePc = "done" =>
          /\ "checksum" \in LogNames
          /\ "info" \in LogNames <=> isScenario
          /\ "packed" \in LogNames <=> ExportObjectsList # <<>>

\* a scenario with packed objects saved to the end: every kind of write made
C1_Witness ==
    /\ savePc = "done"
    /\ isScenario
    /\ ExportObjectsList # <<>>
    /\ Len(writeLog) = 15

\* the header a call in the given mode must write
ExpectedHeader(scenario) ==
    [type |-> IF scenario THEN S6_TYPE_SCENARIO ELSE S6_TYPE_SAVEDGAME,
     classic_flag |-> 0,
     num_packed_objects |-> Len(ExportObjectsList),
     version |-> S6_RCT2_VERSION,
     magic_number |-> S6_MAGIC_NUMBER]

\* the bytes the stream holds where the logged write went
WrittenBytes(e) == SubSeq(stream.data, e.from + 1, e.to)

\* C2: whatever calls came before, a call's output follows its own mode: a
\* scenario call writes the scenario header, the info chunk and the eight
\* scenario tail chunks; a saved-game call writes the saved-game header, no
\* info chunk and the single full tail; no call writes both tails; the two
\* headers differ only in the type.
C2_ModeDecidesOutput ==
    /\ \A i \in 1..Len(writeLog) :
          writeLog[i].chunk = "header" =>
              WrittenBytes(writeLog[i])
                  = ChunkBytes(HeaderBytes(ExpectedHeader(isScenario)), ENC_ROTATE)
    /\ ~("tail_everything" \in LogNames /\ LogNames \cap ScenarioTailNames # {})
    /\ ~isScenario => LogNames \cap (ScenarioTailNames \cup {"info"}) = {}
    /\ isScenario => "tail_everything" \notin LogNames
    /\ savePc = "done" =>
          IF isScenario
          THEN ScenarioTailNames \cup {"info"} \subseteq LogNames
          ELSE "tail_everything" \in LogNames
    /\ \A m \in BOOLEAN : headerOf[m] # <<>> => headerOf[m][1] = ExpectedHeader(m)
    /\ (headerOf[TRUE] # <<>> /\ headerOf[FALSE] # <<>>) =>
          /\ headerOf[TRUE][1].type # headerOf[FALSE][1].type
          /\ [headerOf[TRUE][1] EXCEPT !.type = 0] = [headerOf[FALSE][1] EXCEPT !.type = 0]

\* a saved-game call completed on an exporter that was saved as a scenario before
C2_Witness ==
    /\ savePc = "done"
    /\ ~isScenario
    /\ saveCalls >= 2
    /\ headerOf[TRUE] # <<>>
    /\ "tail_everything" \in LogNames

RECURSIVE LogBytes(_)
LogBytes(log) ==
    IF log = <<>> THEN 0
    ELSE (Head(log).to - Head(log).from) + LogBytes(Tail(log))

ChunkLog == SelectSeq(writeLog, LAMBDA e : e.chunk # "checksum")

\* C3: after a Save on an initially empty stream the stream is the chunk
\* bytes followed by one 32-bit value, and the checksum of all bytes but the
\* last four is that value.
C3_ChecksumRoundTrip ==
    (savePc = "done" /\ streamAtEntry.data = <<>>) =>
        LET d == stream.data
            n == Len(d)
        IN /\ n >= 4
           /\ n - 4 = LogBytes(ChunkLog)
           /\ ChunkLog # <<>>
           /\ ChunkLog[1].from = 0
           /\ \A i \in 1..(Len(ChunkLog) - 1) : ChunkLog[i].to = ChunkLog[i + 1].from
           /\ ChunkLog[Len(ChunkLog)].to = n - 4
           /\ SubSeq(d, n - 3, n) = sawyercoding_calculate_checksum(SubSeq(d, 1, n - 4))
           /\ stream.pos = n

\* a complete scenario save with packed objects into an empty stream
C3_Witness ==
    /\ savePc = "done"
    /\ streamAtEntry.data = <<>>
    /\ isScenario
    /\ "packed" \in LogNames
    /\ Len(stream.data) > 4

----------------------------------------------------------------------------
(* Export of the coordinate tables over live spawns, entrances and stations *)

\* live peep spawns and park entrances (world coordinates)
LivePeepSpawns ==
    {[x |-> 64, y |-> 96, z |-> 32, direction |-> 1],
     [x |-> 4064, y |-> 8000, z |-> 250, direction |-> 3]}

LiveParkEntrances ==
    {[x |-> 32, y |-> 1024, z |-> 112, direction |-> 2],
     [x |-> 8128, y |-> 0, z |-> 16, direction |-> 0]}

SeqsUpTo(S, n) == UNION {[1..k -> S] : k \in 0..n}

\* live station locations: unset, or a tile of the 256 x 256 grid
LiveStationLocations ==
    {[x |-> a, y |-> b] : a \in {COORDS_NULL, 0, 7, 255}, b \in {0, 255}}

\* ride 0 open with any station locations, the other slots unused
RidesWithStations ==
    {[i \in RideIds |->
        IF i = 0
        THEN [LiveRide(0, 5, <<>>) EXCEPT !.entrances = en, !.exits = ex]
        ELSE LiveRide(i, RIDE_TYPE_NULL, <<>>)] :
            en \in [StationIds -> LiveStationLocations],
            ex \in [StationIds -> LiveStationLocations]}

InitCoords ==
    /\ FreshExporter
    /\ SaveIdle
    /\ \/ live \in {[EmptyPark EXCEPT !.gRideList = r, !.gPeepSpawns = <<p>>,
                                          !.gParkEntrances = e] :
                          r \in RidesWithStations, p \in LivePeepSpawns,
                          e \in [1..(RCT12_MAX_PARK_ENTRANCES + 1) -> {CHOOSE x \in LiveParkEntrances : TRUE}]}
       \/ live \in {[EmptyPark EXCEPT !.gPeepSpawns = p, !.gParkEntrances = e] :
                          p \in SeqsUpTo(LivePeepSpawns, MaxLivePeepSpawns),
                          e \in SeqsUpTo(LiveParkEntrances, MaxLiveParkEntrances)}
    /\ exportPc = "coords"
    /\ exportFrame = NoFrame
    /\ exportLog = <<>>
    /\ scenarioSave = NoCall

\* Export's steps for the coordinate tables (line 213, lines 333-344, line 351)
GatherCoords ==
    /\ exportPc = "coords"
    /\ s6' = ExportRides(
                ExportParkEntrances(ExportPeepSpawns(s6, gPeepSpawns), gParkEntrances),
                gRideList)
    /\ exportPc' = "done"
    /\ UNCHANGED <<exportFrame, exportLog>>
    /\ UNCHANGED <<ExportObjectsList, RemoveTracklessRides, saveVars, liveVars, callerVars>>

NextCoords == GatherCoords

SpecCoords == InitCoords /\ [][NextCoords]_vars

----------------------------------------------------------------------------
(* Properties of the coordinate tables *)

SpawnTableAsClaimed ==
    \A i \in PeepSpawnSlots :
        IF i < Len(gPeepSpawns)
        THEN /\ s6.peep_spawns[i].x = gPeepSpawns[i + 1].x
             /\ s6.peep_spawns[i].y = gPeepSpawns[i + 1].y
             /\ s6.peep_spawns[i].z * 16 <= gPeepSpawns[i + 1].z
             /\ gPeepSpawns[i + 1].z < (s6.peep_spawns[i].z + 1) * 16
             /\ s6.peep_spawns[i].direction = gPeepSpawns[i + 1].direction
        ELSE /\ s6.peep_spawns[i].x = PEEP_SPAWN_UNDEFINED
             /\ s6.peep_spawns[i].y = PEEP_SPAWN_UNDEFINED

EntranceTableAsClaimed ==
    \A i \in ParkEntranceSlots :
        IF i < Len(gParkEntrances)
        THEN /\ s6.park_entrance_x[i] = gParkEntrances[i + 1].x
             /\ s6.park_entrance_y[i] = gParkEntrances[i + 1].y
             /\ s6.park_entrance_z[i] = gParkEntrances[i + 1].z
             /\ s6.park_entrance_direction[i] = gParkEntrances[i + 1].direction
        ELSE /\ s6.park_entrance_x[i] = LOCATION_NULL
             /\ s6.park_entrance_y[i] = LOCATION_NULL

OpenRides == {r \in RideIds : gRideList[r].type # RIDE_TYPE_NULL}

\* the exported and the live locations of the stations of the open rides
StationPairs ==
    UNION {{<<s6.rides[r].entrances[i], gRideList[r].entrances[i]>>,
            <<s6.rides[r].exits[i], gRideList[r].exits[i]>>} :
                r \in OpenRides, i \in StationIds}

\* C8 as claimed: slots below min(len, C) of the spawn and entrance tables
\* hold the live elements in order, the slots from len on hold the undefined
\* coordinate, and a station entrance or exit is the undefined tile exactly
\* when the live location is null, never zero for an unset one.
C8_CoordinateTablesAsClaimed ==
    exportPc = "done" =>
        /\ SpawnTableAsClaimed
        /\ EntranceTableAsClaimed
        /\ \A p \in StationPairs :
              /\ p[1] = XY8(RCT_XY8_UNDEFINED) <=> IsNullLocation(p[2])
              /\ IsNullLocation(p[2]) => p[1] # XY8(0)

\* C8 as amended: the same for the two tables; a station entrance or exit
\* is the undefined tile whenever the live location is null (never zero),
\* and otherwise holds the low 8 bits of the live x and y, which is the
\* undefined tile only for a location whose x and y both end in 0xFF.
C8_CoordinateTables ==
    exportPc = "done" =>
        /\ SpawnTableAsClaimed
        /\ EntranceTableAsClaimed
        /\ \A p \in StationPairs :
              /\ IsNullLocation(p[2]) => p[1] = XY8(RCT_XY8_UNDEFINED)
              /\ ~IsNullLocation(p[2]) => p[1] = [x |-> p[2].x % 256, y |-> p[2].y % 256]
              /\ p[1] = XY8(RCT_XY8_UNDEFINED) <=>
                    \/ IsNullLocation(p[2])
                    \/ (p[2].x % 256 = 255 /\ p[2].y % 256 = 255)

\* a short spawn list, an entrance list past the table's size, and a ride
\* with an unset entrance and a set exit
C8_Witness ==
    /\ exportPc = "done"
    /\ Len(gPeepSpawns) < RCT12_MAX_PEEP_SPAWNS
    /\ Len(gParkEntrances) > RCT12_MAX_PARK_ENTRANCES
    /\ \E r \in OpenRides : \E i \in StationIds :
          /\ IsNullLocation(gRideList[r].entrances[i])
          /\ ~IsNullLocation(gRideList[r].exits[i])

----------------------------------------------------------------------------
(* Properties of the ride-measurement table *)

\* the rides that own a measurement, and how many there are
MeasurementOwners == {i \in RideIds : gRideList[i].measurement # <<>>}
NumOwners == Cardinality(MeasurementOwners)

LastUseTick(i) == gRideList[i].measurement[1].last_use_tick

DistinctTicks ==
    \A i, j \in MeasurementOwners : i # j => LastUseTick(i) # LastUseTick(j)

\* the owners of the C most recently used measurements
MostRecentOwners ==
    {i \in MeasurementOwners :
        Cardinality({j \in MeasurementOwners : LastUseTick(j) > LastUseTick(i)})
            < RCT12_RIDE_MEASUREMENT_MAX_ITEMS}

\* the slots the export assigned: the first min(K, C)
NumKept == Min(NumOwners, RCT12_RIDE_MEASUREMENT_MAX_ITEMS)
AssignedSlots == 0..(NumKept - 1)

Overfull == NumOwners > RCT12_RIDE_MEASUREMENT_MAX_ITEMS /\ DistinctTicks

SlotHolds(i, r) ==
    /\ s6.ride_measurements[i].ride_index = r
    /\ s6.ride_measurements[i].last_use_tick = LastUseTick(r)
    /\ s6.ride_measurements[i].flags = gRideList[r].measurement[1].flags

\* C4: the table never has more than C slots in use; when K > C rides own
\* a measurement with pairwise distinct last_use_tick, the table holds
\* exactly the C measurements with the greatest last_use_tick, each once.
C4_KeepsMostRecent ==
    exportPc = "done" =>
        /\ DOMAIN s6.ride_measurements = MeasurementSlots
        /\ NumKept <= RCT12_RIDE_MEASUREMENT_MAX_ITEMS
        /\ \A i \in MeasurementSlots \ AssignedSlots :
              s6.ride_measurements[i] = ZeroRideMeasurement
        /\ Overfull =>
              /\ \A r \in MostRecentOwners : \E i \in MeasurementSlots : SlotHolds(i, r)
              /\ \A i \in MeasurementSlots :
                    \E r \in MostRecentOwners : SlotHolds(i, r)
              /\ \A i, j \in MeasurementSlots :
                    i # j => s6.ride_measurements[i].ride_index
                                # s6.ride_measurements[j].ride_index

\* more owners than slots, and the least recently used is not the last ride
C4_Witness ==
    /\ exportPc = "done"
    /\ Overfull
    /\ MostRecentOwners # MeasurementOwners
    /\ \E r \in MeasurementOwners \ MostRecentOwners :
          \E q \in MostRecentOwners : r < q

C6_EvictedOwnersGetNone ==
    (exportPc = "done" /\ Overfull) =>
        \A r \in MeasurementOwners \ MostRecentOwners :
            s6.rides[r].measurement_index = RCT12_RIDE_MEASUREMENT_NONE

\* C7 as claimed: every slot of the table that no surviving measurement was
\* assigned to holds the table's 'unused' sentinel.
C7_UnusedSlotsHoldSentinel ==
    exportPc = "done" =>
        \A i \in MeasurementSlots \ AssignedSlots :
            s6.ride_measurements[i].ride_index = RCT12_RIDE_ID_NULL

----------------------------------------------------------------------------
(* Export of the research bit arrays, repeated and across research changes *)

\* indices at the ends of words and of the three domains
ResearchSamples == {0, 31, 32, RIDE_TYPE_COUNT - 1, MAX_RIDE_OBJECTS - 1}

\* live research states: the same sample is invented in each domain it lies in
ResearchStates ==
    {[EmptyPark EXCEPT
        !.inventedRideTypes    = S \cap 0..(RIDE_TYPE_COUNT - 1),
        !.inventedRideEntries  = S \cap 0..(MAX_RIDE_OBJECTS - 1),
        !.inventedSceneryItems = S \cap 0..(RCT2_MAX_RESEARCHED_SCENERY_ITEMS - 1)] :
     S \in SUBSET ResearchSamples}

InitBits ==
    /\ FreshExporter
    /\ SaveIdle
    /\ live \in ResearchStates
    /\ exportPc = "bits"
    /\ exportFrame = NoFrame
    /\ exportLog = <<>>
    /\ scenarioSave = NoCall

\* Export's three packing steps (lines 217, 218 and 239); run once, then once more
\* over its own result
GatherResearched ==
    /\ exportPc \in {"bits", "again"}
    /\ s6' = ExportResearchedSceneryItems(
                ExportResearchedRideEntries(ExportResearchedRideTypes(s6)))
    /\ exportPc' = IF exportPc = "bits" THEN "again" ELSE "done"
    /\ UNCHANGED <<exportFrame, exportLog>>
    /\ UNCHANGED <<ExportObjectsList, RemoveTracklessRides, saveVars, liveVars, callerVars>>

\* the game goes on between two exports: research is gained, lost or reset
ResearchChanges ==
    /\ exportPc = "done"
    /\ live' \in ResearchStates \ {live}
    /\ exportPc' = "bits"
    /\ UNCHANGED <<exportFrame, exportLog>>
    /\ UNCHANGED <<exporterVars, saveVars, callerVars>>

NextBits == GatherResearched \/ ResearchChanges

SpecBits == InitBits /\ [][NextBits]_vars

----------------------------------------------------------------------------
(* Properties of the research bit arrays *)

\* bit i is set exactly when i is below count and invented
PackedExactly(words, count, invented) ==
    \A q \in DOMAIN words : \A b \in 0..31 :
        (b \in words[q]) <=> (q * 32 + b < count /\ (q * 32 + b) \in invented)

ResearchPackedExactly ==
    /\ PackedExactly(s6.researched_ride_types, RIDE_TYPE_COUNT, live.inventedRideTypes)
    /\ PackedExactly(s6.researched_ride_entries, MAX_RIDE_OBJECTS, live.inventedRideEntries)
    /\ PackedExactly(s6.researched_scenery_items, RCT2_MAX_RESEARCHED_SCENERY_ITEMS,
                     live.inventedSceneryItems)

\* C9: after each packing step, in each of the three arrays bit i (bit i mod 32
\* of word i div 32) is set exactly when i is below the domain size and its
\* predicate holds, every bit at a position at or beyond the domain size is
\* zero, whatever the array held before; and packing again over the same
\* predicate leaves the arrays unchanged.
C9_PackerExactAndIdempotent ==
    [][/\ GatherResearched => ResearchPackedExactly'
       /\ (GatherResearched /\ exportPc = "again") => s6' = s6]_vars

\* a repeated export after research changed: a bit in the second word only,
\* in the ride-type array whose last word lies wholly beyond its domain
C9_Witness ==
    /\ exportPc = "done"
    /\ live.inventedRideTypes = {32, RIDE_TYPE_COUNT - 1}
    /\ s6.researched_ride_types[1] = {0, BitIndex(RIDE_TYPE_COUNT - 1)}
    /\ s6.researched_ride_types[0] = {}
    /\ live.inventedSceneryItems = {32} \cap 0..(RCT2_MAX_RESEARCHED_SCENERY_ITEMS - 1)

----------------------------------------------------------------------------
(* Export from its first line: checks, repair, assertions, gather *)

\* what a cycle check can report: no cycle, or the list that holds one
CycleReports == {-1, 0, 2}

\* a park with a ride that owns a measurement, a spawn, an entrance and
\* some research
BusyPark ==
    [EmptyPark EXCEPT
        !.gRideList[0] = LiveRide(0, 5, <<[ride_id |-> 0, flags |-> 1, last_use_tick |-> 1]>>),
        !.gPeepSpawns = <<CHOOSE p \in LivePeepSpawns : TRUE>>,
        !.gParkEntrances = <<CHOOSE e \in LiveParkEntrances : TRUE>>,
        !.inventedRideTypes = {0, 32},
        !.inventedRideEntries = {31},
        !.inventedSceneryItems = {0}]

InitExport ==
    /\ FreshExporter
    /\ SaveIdle
    /\ live \in {[park EXCEPT !.spatialIndexCycle = a, !.spriteListCycle = b,
                               !.disjointNullSprites = d] :
                    park \in {EmptyPark, BusyPark},
                    a \in CycleReports, b \in CycleReports, d \in 0..MaxDisjoint}
    /\ exportPc = "check_spatial"
    /\ exportFrame = NoFrame
    /\ exportLog = <<>>
    /\ scenarioSave = NoCall

\* line 151
ExportCheckSpatialIndex ==
    /\ exportPc = "check_spatial"
    /\ exportFrame' = [exportFrame EXCEPT !.spatial_cycle = check_for_spatial_index_cycles(live),
                                          !.live_at_entry = live]
    /\ exportLog' = Append(exportLog, "check_spatial")
    /\ exportPc' = "check_lists"
    /\ UNCHANGED <<exporterVars, saveVars, liveVars, callerVars>>

\* line 152
ExportCheckSpriteLists ==
    /\ exportPc = "check_lists"
    /\ exportFrame' = [exportFrame EXCEPT !.regular_cycle = check_for_sprite_list_cycles(live)]
    /\ exportLog' = Append(exportLog, "check_lists")
    /\ exportPc' = "fix_disjoint"
    /\ UNCHANGED <<exporterVars, saveVars, liveVars, callerVars>>

\* line 153
ExportFixDisjointSprites ==
    /\ exportPc = "fix_disjoint"
    /\ exportFrame' = [exportFrame EXCEPT !.disjoint_sprites_count = live.disjointNullSprites]
    /\ live' = fix_disjoint_sprites(live)
    /\ exportLog' = Append(exportLog, "fix_disjoint")
    /\ exportPc' = "assert_spatial"
    /\ UNCHANGED <<exporterVars, saveVars, callerVars>>

\* line 154
ExportAssertSpatialIndex ==
    /\ exportPc = "assert_spatial"
    /\ exportLog' = Append(exportLog, "assert_spatial")
    /\ exportPc' = IF exportFrame.spatial_cycle = -1 THEN "assert_lists" ELSE "failed"
    /\ UNCHANGED <<exporterVars, saveVars, liveVars, exportFrame, callerVars>>

\* lines 155-160; the log_error of lines 157-160 changes no state
ExportAssertSpriteLists ==
    /\ exportPc = "assert_lists"
    /\ exportLog' = Append(exportLog, "assert_lists")
    /\ exportPc' = IF exportFrame.regular_cycle = -1 THEN "gather" ELSE "failed"
    /\ UNCHANGED <<exporterVars, saveVars, liveVars, exportFrame, callerVars>>

\* the gather steps modelled here, in Export's order (lines 213-363)
ExportGather ==
    /\ exportPc = "gather"
    /\ s6' \in ExportRideMeasurements(
                  ExportRides(
                      ExportParkEntrances(
                          ExportResearchedSceneryItems(
                              ExportResearchedRideEntries(
                                  ExportResearchedRideTypes(
                                      ExportPeepSpawns(s6, gPeepSpawns)))),
                          gParkEntrances),
                      gRideList),
                  gRideList)
    /\ exportLog' = Append(exportLog, "gather")
    /\ exportPc' = "done"
    /\ UNCHANGED <<ExportObjectsList, RemoveTracklessRides, saveVars, liveVars, exportFrame, callerVars>>

NextExport ==
    \/ ExportCheckSpatialIndex
    \/ ExportCheckSpriteLists
    \/ ExportFixDisjointSprites
    \/ ExportAssertSpatialIndex
    \/ ExportAssertSpriteLists
    \/ ExportGather

SpecExport == InitExport /\ [][NextExport]_vars

----------------------------------------------------------------------------
(* Properties of Export's opening checks *)

\* a check that has run reported a cycle
CycleReported == exportFrame.spatial_cycle # -1 \/ exportFrame.regular_cycle # -1

\* C10: once a pre-export check has reported a cycle, no step of Export
\* populates the snapshot record, no step repairs or otherwise modifies the
\* live entity lists, and Export never reaches its gather steps.
C10_CycleStopsExportUntouched ==
    [][CycleReported => /\ s6' = s6
                        /\ live' = live
                        /\ exportPc' \notin {"gather", "done"}]_vars

\* what the code does keep of it: a reported cycle ends Export before any
\* gather step, with the snapshot record still as constructed
CycleStopsGather ==
    CycleReported => (exportPc \notin {"gather", "done"} /\ s6 = S6Zero)

\* Export failed on a cycle after fix_disjoint_sprites repaired the lists
RepairedBeforeFailure ==
    /\ exportPc = "failed"
    /\ exportFrame.disjoint_sprites_count > 0
    /\ live.disjointNullSprites = 0

----------------------------------------------------------------------------
(* Export after its checks: the gather steps and the fix-up passes *)

\* ExportSprites without the reset of the unused live sprites
ExportStepSprites_NoClear ==
    /\ exportPc = "gather"
    /\ live' = live
    /\ s6' = ExportSprites(s6, live'.sprites)
    /\ exportLog' = Append(exportLog, "sprites") \o AllSpriteWarnings(live'.sprites, 0)
    /\ exportPc' = "tables"
    /\ UNCHANGED <<ExportObjectsList, RemoveTracklessRides, saveVars, exportFrame, callerVars>>

\* line 200: ExportSprites, which first resets the unused live sprites
ExportStepSprites ==
    /\ exportPc = "gather"
    /\ live' = sprite_clear_all_unused(live)
    /\ s6' = ExportSprites(s6, live'.sprites)
    /\ exportLog' = Append(exportLog, "sprites") \o AllSpriteWarnings(live'.sprites, 0)
    /\ exportPc' = "tables"
    /\ UNCHANGED <<ExportObjectsList, RemoveTracklessRides, saveVars, exportFrame, callerVars>>

\* lines 205-344: the financial scalars and their hash, peep spawns, the
\* research bit arrays, park entrances
ExportStepTables ==
    /\ exportPc = "tables"
    /\ s6' = ExportParkEntrances(
                ExportResearchedSceneryItems(
                    ExportResearchedRideEntries(
                        ExportResearchedRideTypes(
                            ExportPeepSpawns(
                                ExportFinancials(s6, gInitialCash, gBankLoan, gMaxBankLoan),
                                gPeepSpawns)))),
                gParkEntrances)
    /\ exportLog' = Append(exportLog, "tables")
    /\ exportPc' = "rides"
    /\ UNCHANGED <<ExportObjectsList, RemoveTracklessRides, saveVars, liveVars, exportFrame, callerVars>>

\* line 351
ExportStepRides ==
    /\ exportPc = "rides"
    /\ s6' = ExportRides(s6, gRideList)
    /\ exportLog' = Append(exportLog, "rides")
    /\ exportPc' = "measurements"
    /\ UNCHANGED <<ExportObjectsList, RemoveTracklessRides, saveVars, liveVars, exportFrame, callerVars>>

\* line 363
ExportStepRideMeasurements ==
    /\ exportPc = "measurements"
    /\ s6' \in ExportRideMeasurements(s6, gRideList)
    /\ exportLog' = Append(exportLog, "measurements")
    /\ exportPc' = "trackless"
    /\ UNCHANGED <<ExportObjectsList, RemoveTracklessRides, saveVars, liveVars, exportFrame, callerVars>>

\* the three passes over the assembled record; each is recorded in it
scenario_remove_trackless_rides(s) == [s EXCEPT !.fixups = Append(@, "trackless")]
scenario_fix_ghosts(s) == [s EXCEPT !.fixups = Append(@, "ghosts")]
game_convert_strings_to_rct2(s) == [s EXCEPT !.fixups = Append(@, "strings")]

\* the pass over trackless rides made whatever the setting
ExportStepRemoveTracklessRides_Always ==
    /\ exportPc = "trackless"
    /\ s6' = scenario_remove_trackless_rides(s6)
    /\ exportLog' = Append(exportLog, "trackless")
    /\ exportPc' = "ghosts"
    /\ UNCHANGED <<ExportObjectsList, RemoveTracklessRides, saveVars, liveVars, exportFrame, callerVars>>

\* lines 410-413
ExportStepRemoveTracklessRides ==
    /\ exportPc = "trackless"
    /\ IF RemoveTracklessRides
       THEN /\ s6' = scenario_remove_trackless_rides(s6)
            /\ exportLog' = Append(exportLog, "trackless")
       ELSE UNCHANGED <<s6, exportLog>>
    /\ exportPc' = "ghosts"
    /\ UNCHANGED <<ExportObjectsList, RemoveTracklessRides, saveVars, liveVars, exportFrame, callerVars>>

\* line 415
ExportStepFixGhosts ==
    /\ exportPc = "ghosts"
    /\ s6' = scenario_fix_ghosts(s6)
    /\ exportLog' = Append(exportLog, "ghosts")
    /\ exportPc' = "strings"
    /\ UNCHANGED <<ExportObjectsList, RemoveTracklessRides, saveVars, liveVars, exportFrame, callerVars>>

\* line 416, after which Export returns
ExportStepConvertStrings ==
    /\ exportPc = "strings"
    /\ s6' = game_convert_strings_to_rct2(s6)
    /\ exportLog' = Append(exportLog, "strings")
    /\ exportPc' = "done"
    /\ UNCHANGED <<ExportObjectsList, RemoveTracklessRides, saveVars, liveVars, exportFrame, callerVars>>

----------------------------------------------------------------------------
(* scenario_save: create an exporter, Export, Save to the path, clean up *)

\* a park whose sprite slots hold a peep and a balloon
SpritePark ==
    [BusyPark EXCEPT !.sprites =
        [i \in SpriteSlots |->
            IF i = 0 THEN LiveSprite(SPRITE_IDENTIFIER_PEEP, 0, i, 11)
            ELSE IF i = 1 THEN LiveSprite(SPRITE_IDENTIFIER_MISC, SPRITE_MISC_BALLOON, i, 12)
            ELSE UnusedSprite(i)]]

\* a park with a sprite of no known identifier, a misc sprite of no known
\* type, and a peep in the slot after them
OddSpritePark ==
    [BusyPark EXCEPT !.sprites =
        [i \in SpriteSlots |->
            IF i = 0 THEN LiveSprite(4, 0, i, 11)
            ELSE IF i = 1 THEN LiveSprite(SPRITE_IDENTIFIER_MISC, 10, i, 12)
            ELSE IF i = 2 THEN LiveSprite(SPRITE_IDENTIFIER_PEEP, 0, i, 13)
            ELSE UnusedSprite(i)]]

\* a park whose last sprite slot was freed but still holds what the sprite
\* left behind
StaleSpritePark ==
    [SpritePark EXCEPT !.sprites[RCT2_MAX_SPRITES - 1] =
        [LiveSprite(SPRITE_IDENTIFIER_NULL, SPRITE_MISC_DUCK, RCT2_MAX_SPRITES - 1, 14)
            EXCEPT !.flags = 0]]

\* a park with the given starting cash, loan and loan ceiling
WithFinances(park, initialCash, bankLoan, maxBankLoan) ==
    [park EXCEPT !.gInitialCash = initialCash,
                 !.gBankLoan = bankLoan,
                 !.gMaxBankLoan = maxBankLoan]

\* the live states a save may find
ParksToSave ==
    {[park EXCEPT !.spatialIndexCycle = a, !.spriteListCycle = b, !.disjointNullSprites = d] :
        park \in {EmptyPark,
                  WithFinances(SpritePark, Money32(100000), Money32(10000), Word32(50000)),
                  WithFinances(OddSpritePark, Money32(7342378), Money32(10000),
                               <<255, 255, 255, 255>>),
                  WithFinances(StaleSpritePark, Money32(-1), Money32(0), <<0, 0, 0, 128>>)},
        a \in {-1, 0}, b \in {-1, 2}, d \in 0..MaxDisjoint}

InitScenarioSave ==
    /\ s6 = S6Zero
    /\ ExportObjectsList = <<>>
    /\ RemoveTracklessRides = FALSE
    /\ SaveIdle
    /\ live \in ParksToSave
    /\ exportPc = "idle"
    /\ exportFrame = NoFrame
    /\ exportLog = <<>>
    /\ scenarioSave \in {[NoCall EXCEPT !.pc = "entry", !.flags = f] : f \in SaveFlags}

\* lines 1171-1198: new S6Exporter(), its two settings, and the call of Export
ScenarioSaveCallExport ==
    /\ scenarioSave.pc = "entry"
    /\ s6' = S6Zero
    /\ ExportObjectsList' = IF scenarioSave.flags.export
                            THEN CHOOSE l \in PackableObjectLists : Len(l) = MaxPacked
                            ELSE <<>>
    /\ RemoveTracklessRides' = TRUE
    /\ scenarioSave' = [scenarioSave EXCEPT !.pc = "export", !.exporters = @ + 1]
    /\ exportPc' = "check_spatial"
    /\ UNCHANGED <<saveVars, liveVars, exportFrame, exportLog>>

\* the file opened and Save started as soon as Export has been entered
ScenarioSaveCallSave_BeforeExport ==
    /\ scenarioSave.pc = "export"
    /\ exportPc \in {"check_lists", "done"}
    /\ savePc = "idle"
    /\ scenarioSave' = [scenarioSave EXCEPT !.pc = IF exportPc = "done" THEN "save" ELSE @,
                                            !.file = "opened"]
    /\ stream' = [data |-> <<>>, pos |-> 0]
    /\ streamAtEntry' = [data |-> <<>>, pos |-> 0]
    /\ s6' = SaveHeaderFields(s6, scenarioSave.flags.scenario, ExportObjectsList)
    /\ isScenario' = scenarioSave.flags.scenario
    /\ savePc' = SaveOrder[1]
    /\ tailIdx' = 1
    /\ writeLog' = <<>>
    /\ saveCalls' = saveCalls + 1
    /\ UNCHANGED <<ExportObjectsList, RemoveTracklessRides, headerOf, liveVars, exportVars>>

\* lines 59-63 and 70-74, entered from lines 1199-1206: the file is opened
\* for writing and Save starts on the fresh stream
ScenarioSaveCallSave ==
    /\ scenarioSave.pc = "export"
    /\ exportPc = "done"
    /\ scenarioSave' = [scenarioSave EXCEPT !.pc = "save", !.file = "opened"]
    /\ stream' = [data |-> <<>>, pos |-> 0]
    /\ streamAtEntry' = [data |-> <<>>, pos |-> 0]
    /\ s6' = SaveHeaderFields(s6, scenarioSave.flags.scenario, ExportObjectsList)
    /\ isScenario' = scenarioSave.flags.scenario
    /\ savePc' = SaveOrder[1]
    /\ tailIdx' = 1
    /\ writeLog' = <<>>
    /\ saveCalls' = saveCalls + 1
    /\ UNCHANGED <<ExportObjectsList, RemoveTracklessRides, headerOf, liveVars, exportVars>>

\* the FileStream constructor throws: the file could not be opened
ScenarioSaveOpenFails ==
    /\ scenarioSave.pc = "export"
    /\ exportPc = "done"
    /\ scenarioSave' = [scenarioSave EXCEPT !.pc = "joined"]
    /\ UNCHANGED <<exporterVars, saveVars, liveVars, exportVars>>

\* lines 1207-1211: result = true after Save returned; an exception thrown
\* by Export or Save is caught and result stays false
ScenarioSaveJoin ==
    /\ \/ /\ scenarioSave.pc = "export" /\ exportPc = "failed"
          /\ scenarioSave' = [scenarioSave EXCEPT !.pc = "joined"]
       \/ /\ scenarioSave.pc = "save" /\ savePc = "failed"
          /\ scenarioSave' = [scenarioSave EXCEPT !.pc = "joined"]
       \/ /\ scenarioSave.pc = "save" /\ savePc = "done"
          /\ scenarioSave' = [scenarioSave EXCEPT !.pc = "joined", !.result = TRUE]
    /\ UNCHANGED <<exporterVars, saveVars, liveVars, exportVars>>

\* line 1212
ScenarioSaveDeleteExporter ==
    /\ scenarioSave.pc = "joined"
    /\ scenarioSave' = [scenarioSave EXCEPT !.pc = "deleted", !.deletes = @ + 1]
    /\ UNCHANGED <<exporterVars, saveVars, liveVars, exportVars>>

\* line 1214
ScenarioSaveInvalidateScreen ==
    /\ scenarioSave.pc = "deleted"
    /\ scenarioSave' = [scenarioSave EXCEPT !.pc = "invalidated", !.invalidations = @ + 1]
    /\ UNCHANGED <<exporterVars, saveVars, liveVars, exportVars>>

\* the screen age reset whatever the result
ScenarioSaveReturn_AlwaysReset ==
    /\ scenarioSave.pc = "invalidated"
    /\ scenarioSave' = [scenarioSave EXCEPT !.pc = "returned", !.gScreenAge = 0]
    /\ UNCHANGED <<exporterVars, saveVars, liveVars, exportVars>>

\* lines 1216-1220
ScenarioSaveReturn ==
    /\ scenarioSave.pc = "invalidated"
    /\ scenarioSave' =
            [scenarioSave EXCEPT
                !.pc = "returned",
                !.gScreenAge = IF scenarioSave.result /\ ~scenarioSave.flags.automatic
                               THEN 0 ELSE @]
    /\ UNCHANGED <<exporterVars, saveVars, liveVars, exportVars>>

NextScenarioSave ==
    \/ ScenarioSaveCallExport
    \/ ExportCheckSpatialIndex
    \/ ExportCheckSpriteLists
    \/ ExportFixDisjointSprites
    \/ ExportAssertSpatialIndex
    \/ ExportAssertSpriteLists
    \/ ExportStepSprites
    \/ ExportStepTables
    \/ ExportStepRides
    \/ ExportStepRideMeasurements
    \/ ExportStepRemoveTracklessRides
    \/ ExportStepFixGhosts
    \/ ExportStepConvertStrings
    \/ ScenarioSaveCallSave
    \/ ScenarioSaveOpenFails
    \/ SaveWriteHeader
    \/ SaveWriteInfo
    \/ SaveWritePackedObjects
    \/ SaveWriteObjects
    \/ SaveWriteMisc
    \/ SaveWriteTiles
    \/ SaveWriteTail
    \/ SaveWriteChecksum
    \/ SaveIOFailure
    \/ ScenarioSaveJoin
    \/ ScenarioSaveDeleteExporter
    \/ ScenarioSaveInvalidateScreen
    \/ ScenarioSaveReturn

SpecScenarioSave == InitScenarioSave /\ [][NextScenarioSave]_vars

----------------------------------------------------------------------------
(* Properties of Export inside scenario_save *)

IsPrefix(p, q) == Len(p) <= Len(q) /\ \A i \in 1..Len(p) : p[i] = q[i]

LoggedWarnings == {"warn_identifier", "warn_misc_type"}

\* the statements Export has executed, without the warnings it logged
StepsOf(log) == SelectSeq(log, LAMBDA e : e \notin LoggedWarnings)

\* every statement of an Export that runs to its end, in program order
FullExportSteps ==
    <<"check_spatial", "check_lists", "fix_disjoint", "assert_spatial", "assert_lists",
      "sprites", "tables", "rides", "measurements">>
        \o (IF RemoveTracklessRides THEN <<"trackless">> ELSE <<>>)
        \o <<"ghosts", "strings">>

\* the fix-up passes an Export that runs to its end applies to the record
FullFixups ==
    (IF RemoveTracklessRides THEN <<"trackless">> ELSE <<>>) \o <<"ghosts", "strings">>

\* the live lists hold a cycle
CycleInLive == live.spatialIndexCycle # -1 \/ live.spriteListCycle # -1

\* C11: when the live lists hold no cycle, Export never fails, whatever
\* fix_disjoint_sprites counted and whatever sprites of unknown identifier or
\* unknown misc type it met: its statements run in program order up to the
\* last fix-up pass, and when it has returned every sprite slot and every
\* ride slot has been exported and every fix-up pass has been applied.
C11_NonFatalNeverAborts ==
    ~CycleInLive =>
        /\ exportPc # "failed"
        /\ IsPrefix(StepsOf(exportLog), FullExportSteps)
        /\ exportPc = "done" =>
            /\ StepsOf(exportLog) = FullExportSteps
            /\ \A i \in SpriteSlots : s6.sprites[i] = ExportSprite(live.sprites[i])
            /\ \A r \in RideIds : s6.rides[r].type = gRideList[r].type
            /\ s6.fixups = FullFixups

\* an Export that returned after all three kinds of event
C11_Witness ==
    /\ exportPc = "done"
    /\ exportFrame.disjoint_sprites_count > 0
    /\ \E i \in 1..Len(exportLog) : exportLog[i] = "warn_identifier"
    /\ \E i \in 1..Len(exportLog) : exportLog[i] = "warn_misc_type"

\* C12: in scenario_save, until Export has returned the destination file is
\* not opened and no byte is written; a failed Export leaves the destination
\* untouched for good; and any write to the stream comes after every
\* statement of Export, the fix-up passes included.
C12_NoWriteBeforeExportCompletes ==
    /\ exportPc # "done" =>
            /\ scenarioSave.file = "untouched"
            /\ savePc = "idle"
            /\ writeLog = <<>>
            /\ stream.data = <<>>
    /\ (scenarioSave.file # "untouched" \/ writeLog # <<>>) =>
            /\ exportPc = "done"
            /\ StepsOf(exportLog) = FullExportSteps
            /\ s6.fixups = FullFixups

\* scenario_save has returned after Export failed on a cycle
C12_Witness ==
    /\ scenarioSave.pc = "returned"
    /\ exportPc = "failed"
    /\ scenarioSave.file = "untouched"
    /\ GetLength(stream) = 0

\* C13: when scenario_save has returned, its result is true exactly when
\* Export and then Save both ran to their end (a cycle found by Export or a
\* stream failure in Save gives false); on every path one exporter was
\* created and destroyed once and the screen was invalidated once; and the
\* screen age was reset exactly when the result is true and the automatic
\* flag is not set.
C13_ResultAndCleanup ==
    /\ scenarioSave.deletes <= 1
    /\ scenarioSave.invalidations <= 1
    /\ scenarioSave.pc = "returned" =>
        /\ scenarioSave.result <=> (exportPc = "done" /\ savePc = "done")
        /\ exportPc = "failed" => ~scenarioSave.result
        /\ savePc = "failed" => ~scenarioSave.result
        /\ scenarioSave.exporters = 1
        /\ scenarioSave.deletes = 1
        /\ scenarioSave.invalidations = 1
        /\ scenarioSave.gScreenAge = 0 <=>
                (scenarioSave.result /\ ~scenarioSave.flags.automatic)

\* a manual save that failed in the middle of Save: the file holds a part
\* of the chunks, the result is false and the screen age is kept
C13_Witness ==
    /\ scenarioSave.pc = "returned"
    /\ savePc = "failed"
    /\ Len(writeLog) > 2
    /\ ~scenarioSave.flags.automatic
    /\ ~scenarioSave.result
    /\ scenarioSave.gScreenAge # 0
    /\ scenarioSave.deletes = 1

----------------------------------------------------------------------------
(* Properties of unused ride slots *)

\* C14: after Export, every ride slot whose live ride has the null type holds
\* a record with the null type and every other field zero, its measurement
\* index included, even when the live ride still owns a measurement.
C14_NullRidesExportBare ==
    exportPc = "done" =>
        \A r \in RideIds :
            gRideList[r].type = RIDE_TYPE_NULL =>
                s6.rides[r] = [ZeroRide EXCEPT !.type = RIDE_TYPE_NULL]

\* an unused slot whose measurement was exported into a slot other than 0
NullRideWithMeasurementIndex ==
    /\ exportPc = "done"
    /\ \E r \in RideIds :
        /\ gRideList[r].type = RIDE_TYPE_NULL
        /\ s6.rides[r].measurement_index > 0

----------------------------------------------------------------------------
(* Export's loan hash, over sample values of the three financial scalars *)

MaxHashCalls == 2

\* starting cash: none, the smallest amount, a usual amount, the amount that
\* leaves 16 after the first subtraction (so the rotation by 5 yields
\* 0x80000000), a negative amount, the largest amount
InitialCashSamples ==
    {Money32(v) : v \in {0, 1, 100000, 7342378, -1, 2147483647}}

BankLoanSamples ==
    {Money32(v) : v \in {0, 1, 10000, -5, 2147483647}}

\* the loan ceiling is unsigned: 0x80000000 and 0xFFFFFFFF are ordinary values
MaxBankLoanSamples ==
    {Word32(v) : v \in {0, 1, 50000}} \cup {<<0, 0, 0, 128>>, <<255, 255, 255, 255>>}

InitHash ==
    /\ FreshExporter
    /\ SaveIdle
    /\ live \in {[p EXCEPT !.gInitialCash = a, !.gBankLoan = b, !.gMaxBankLoan = c] :
                    p \in {EmptyPark, SpritePark},
                    a \in InitialCashSamples,
                    b \in BankLoanSamples,
                    c \in MaxBankLoanSamples}
    /\ exportPc = "hash"
    /\ exportFrame = NoFrame
    /\ exportLog = <<>>
    /\ scenarioSave = NoCall

\* Export's statements for the financial scalars (lines 205, 206, 259, 306);
\* Export is public and may run again on the same exporter
GatherFinancials ==
    /\ exportPc = "hash"
    /\ Len(exportLog) < MaxHashCalls
    /\ s6' = ExportFinancials(s6, gInitialCash, gBankLoan, gMaxBankLoan)
    /\ exportLog' = Append(exportLog, "loan_hash")
    /\ UNCHANGED <<exportPc, exportFrame>>
    /\ UNCHANGED <<ExportObjectsList, RemoveTracklessRides, saveVars, liveVars, callerVars>>

NextHash == GatherFinancials

SpecHash == InitHash /\ [][NextHash]_vars

----------------------------------------------------------------------------
(* Properties of the loan hash *)

\* the 32-bit value w as the set of its one bits, bit 0 the least significant
BitsOf(w) == {i \in 0..31 : (w[(i \div 8) + 1] \div Pow2(i % 8)) % 2 = 1}

BitAt(B, i) == IF i \in B THEN 1 ELSE 0

\* rotation right by k: bit i moves to bit i - k, modulo 32
RotateRight(B, k) == {(i + 32 - k) % 32 : i \in B}

\* the carry into bit i of A + B + c0
RECURSIVE CarryInto(_, _, _, _)
CarryInto(A, B, c0, i) ==
    IF i = 0 THEN c0
    ELSE (BitAt(A, i - 1) + BitAt(B, i - 1) + CarryInto(A, B, c0, i - 1)) \div 2

SumBits(A, B, c0) ==
    {i \in 0..31 : (BitAt(A, i) + BitAt(B, i) + CarryInto(A, B, c0, i)) % 2 = 1}

\* A + B and A - B modulo 2^32
Plus32(A, B) == SumBits(A, B, 0)
Minus32(A, B) == SumBits(A, (0..31) \ B, 1)

\* ror3( ror7( ror5(0x70093A - initialCash) - bankLoan ) + maxBankLoan )
LoanHashFormula(initialCash, bankLoan, maxBankLoan) ==
    RotateRight(
        Plus32(
            RotateRight(
                Minus32(
                    RotateRight(Minus32(BitsOf(Word32(7342394)), initialCash), 5),
                    bankLoan),
                7),
            maxBankLoan),
        3)

HashStored == exportPc = "hash" /\ Len(exportLog) > 0

\* C15: the stored hash is ror3(ror7(ror5(0x70093A - initialCash) - bankLoan)
\* + maxBankLoan) in arithmetic modulo 2^32, whatever else the park and the
\* exporter hold, and the same on every call with the same three values.
C15_LoanHashIsTheFormula ==
    HashStored =>
        BitsOf(s6.loan_hash)
            = LoanHashFormula(BitsOf(gInitialCash), BitsOf(gBankLoan), BitsOf(gMaxBankLoan))

\* the hash computed twice for a park whose first rotation yields 0x80000000,
\* from which a positive loan is then subtracted
C15_Witness ==
    /\ HashStored
    /\ Len(exportLog) = MaxHashCalls
    /\ gInitialCash = Money32(7342378)
    /\ gBankLoan = Money32(10000)
    /\ gMaxBankLoan = <<255, 255, 255, 255>>
    /\ s6.loan_hash # <<0, 0, 0, 0>>

\* C16: the hash is injective in each argument: with the other two values
\* kept, any other value of the starting cash, of the loan or of the loan
\* ceiling gives a hash other than the stored one.
C16_InjectiveInEachArgument ==
    HashStored =>
        /\ \A a \in InitialCashSamples \ {gInitialCash} :
                GetLoanHash(a, gBankLoan, gMaxBankLoan) # s6.loan_hash
        /\ \A b \in BankLoanSamples \ {gBankLoan} :
                GetLoanHash(gInitialCash, b, gMaxBankLoan) # s6.loan_hash
        /\ \A c \in MaxBankLoanSamples \ {gMaxBankLoan} :
                GetLoanHash(gInitialCash, gBankLoan, c) # s6.loan_hash

\* a stored hash whose three values each have a neighbour one unit away
C16_Witness ==
    /\ HashStored
    /\ gInitialCash = Money32(0)
    /\ gBankLoan = Money32(1)
    /\ gMaxBankLoan = Word32(0)
    /\ s6.loan_hash = GetLoanHash(Money32(0), Money32(1), Word32(0))
    /\ s6.loan_hash # GetLoanHash(Money32(1), Money32(1), Word32(0))

----------------------------------------------------------------------------
(* The live state across Export *)

ExportReturned == exportPc \in {"done", "failed"}

LiveAtEntry == exportFrame.live_at_entry

\* C17 as stated: when Export has returned, every live-state variable has
\* the value it had when Export was called.
C17_ExportOnlyReadsLive ==
    ExportReturned => live = LiveAtEntry

\* C17 as the code has it: Export changes the live sprite table and nothing
\* else of the live state. When it returns, no null sprite is disjoint any
\* more; after a completed Export every sprite slot of the null identifier
\* is in its reset state; every other sprite, and every ride, collection and
\* register, has the value it had when Export was called.
C17_ExportRepairsSpritesOnly ==
    ExportReturned =>
        /\ live.disjointNullSprites = 0
        /\ \A i \in SpriteSlots :
                live.sprites[i] =
                    IF /\ exportPc = "done"
                       /\ LiveAtEntry.sprites[i].sprite_identifier = SPRITE_IDENTIFIER_NULL
                    THEN UnusedSprite(i)
                    ELSE LiveAtEntry.sprites[i]
        /\ [live EXCEPT !.sprites = LiveAtEntry.sprites,
                        !.disjointNullSprites = LiveAtEntry.disjointNullSprites]
                = LiveAtEntry

\* a completed Export that found disjoint null sprites and a freed slot
\* with stale content, and left both repaired
C17_Witness ==
    /\ exportPc = "done"
    /\ LiveAtEntry.disjointNullSprites > 0
    /\ \E i \in SpriteSlots :
        /\ LiveAtEntry.sprites[i].sprite_identifier = SPRITE_IDENTIFIER_NULL
        /\ LiveAtEntry.sprites[i] # UnusedSprite(i)
        /\ live.sprites[i] = UnusedSprite(i)
    /\ live.gRideList = LiveAtEntry.gRideList

----------------------------------------------------------------------------
(* Export's narrowing conversions, over live values wider than the fields *)

\* peep spawns (int32_t x, y, z): inside the map, and past 16 bits in x and
\* y and past 8 bits in z / 16
WidePeepSpawns ==
    {[x |-> 64, y |-> 96, z |-> 32, direction |-> 1],
     [x |-> 70000, y |-> 96, z |-> 32, direction |-> 1],
     [x |-> 64, y |-> 65536 + 96, z |-> 5000, direction |-> 2]}

\* station locations (int32_t x, y): unset, on the grid, past 8 bits
WideStationLocations ==
    {[x |-> COORDS_NULL, y |-> 0], [x |-> 7, y |-> 255], [x |-> 300, y |-> 511]}

\* inversion and hole counts (uint8_t): inside 5 bits, at the cap, past it
WideCounts == {0, 5, 31, 32, 40, 255}

ShelteredEighths == {0, 3, 7}

WideRides ==
    {[i \in RideIds |->
        IF i = 0
        THEN [LiveRide(0, ty, <<>>) EXCEPT
                !.inversions = IF ty = RIDE_TYPE_MINI_GOLF THEN 0 ELSE n,
                !.holes = IF ty = RIDE_TYPE_MINI_GOLF THEN n ELSE 0,
                !.sheltered_eighths = e,
                !.entrances = [s \in StationIds |-> loc],
                !.exits = [s \in StationIds |-> loc]]
        ELSE LiveRide(i, RIDE_TYPE_NULL, <<>>)] :
            ty \in {5, RIDE_TYPE_MINI_GOLF}, n \in WideCounts,
            e \in ShelteredEighths, loc \in WideStationLocations}

InitNarrowing ==
    /\ FreshExporter
    /\ SaveIdle
    /\ live \in {[EmptyPark EXCEPT !.gRideList = r, !.gPeepSpawns = <<p>>] :
                    r \in WideRides, p \in WidePeepSpawns}
    /\ exportPc = "narrowing"
    /\ exportFrame = NoFrame
    /\ exportLog = <<>>
    /\ scenarioSave = NoCall

\* Export's steps for the peep spawns and the rides (lines 213 and 351)
GatherNarrowing ==
    /\ exportPc = "narrowing"
    /\ s6' = ExportRides(ExportPeepSpawns(s6, gPeepSpawns), gRideList)
    /\ exportPc' = "done"
    /\ UNCHANGED <<exportFrame, exportLog>>
    /\ UNCHANGED <<ExportObjectsList, RemoveTracklessRides, saveVars, liveVars, callerVars>>

NextNarrowing == GatherNarrowing

SpecNarrowing == InitNarrowing /\ [][NextNarrowing]_vars

----------------------------------------------------------------------------
(* Properties of the narrowing conversions *)

\* the live count that the exported inversions field is made from
LiveCount(r) ==
    IF gRideList[r].type = RIDE_TYPE_MINI_GOLF
    THEN gRideList[r].holes
    ELSE gRideList[r].inversions

SpawnsTruncate ==
    \A i \in PeepSpawnSlots :
        i < Len(gPeepSpawns) =>
            /\ s6.peep_spawns[i].x = gPeepSpawns[i + 1].x % Pow2(16)
            /\ s6.peep_spawns[i].y = gPeepSpawns[i + 1].y % Pow2(16)
            /\ s6.peep_spawns[i].z = (gPeepSpawns[i + 1].z \div 16) % Pow2(8)

StationsTruncate ==
    \A r \in OpenRides : \A i \in StationIds :
        /\ ~IsNullLocation(gRideList[r].entrances[i]) =>
                s6.rides[r].entrances[i] = [x |-> gRideList[r].entrances[i].x % Pow2(8),
                                            y |-> gRideList[r].entrances[i].y % Pow2(8)]
        /\ ~IsNullLocation(gRideList[r].exits[i]) =>
                s6.rides[r].exits[i] = [x |-> gRideList[r].exits[i].x % Pow2(8),
                                        y |-> gRideList[r].exits[i].y % Pow2(8)]

\* the count truncated to the 5 bits it has in the field, or to the field's
\* 8 bits before the sheltered eighths are or-ed in
CountsTruncate ==
    \A r \in OpenRides :
        \/ s6.rides[r].inversions % Pow2(5) = LiveCount(r) % Pow2(5)
        \/ s6.rides[r].inversions
                = BitOr(LiveCount(r) % Pow2(8), (gRideList[r].sheltered_eighths * Pow2(5)) % Pow2(8))

\* what the code stores: the count capped at 31, not reduced modulo 32
CountsSaturate ==
    \A r \in OpenRides :
        s6.rides[r].inversions % Pow2(5) = Min(LiveCount(r), 31)

\* C18: every narrowing conversion of Export truncates (value modulo
\* 2^width): the peep-spawn x, y and z / 16, the station entrance and exit
\* coordinates, and the ride inversion / golf-hole count alike; none
\* saturates.
C18_EveryNarrowingTruncates ==
    exportPc = "done" =>
        /\ SpawnsTruncate
        /\ StationsTruncate
        /\ CountsTruncate

\* the spawn and station conversions truncate while the count saturates
SpawnsTruncateCountsSaturate ==
    exportPc = "done" => SpawnsTruncate /\ StationsTruncate /\ CountsSaturate

\* an export holding a truncated spawn x next to a capped inversion count
TruncatedSpawnBesideCappedCount ==
    /\ exportPc = "done"
    /\ gPeepSpawns[1].x = 70000
    /\ s6.peep_spawns[0].x = 4464
    /\ gRideList[0].inversions = 40
    /\ gRideList[0].sheltered_eighths = 3
    /\ s6.rides[0].inversions = 127

----------------------------------------------------------------------------
(* ExportSprites over sprites of every kind *)

\* the kinds of sprite a slot may hold, as <<identifier, type, content>>: a
\* vehicle, a peep, a piece of litter and two identifiers that have no case
\* (some with a type that is not a misc type with a case), a misc sprite of
\* every type with a case and of two without, a reset unused slot, and an
\* unused slot with stale content
SpriteKinds ==
    {<<SPRITE_IDENTIFIER_VEHICLE, 10, 11>>, <<SPRITE_IDENTIFIER_PEEP, 0, 11>>,
     <<SPRITE_IDENTIFIER_LITTER, 0, 11>>, <<4, 0, 11>>, <<200, 10, 11>>}
    \cup {<<SPRITE_IDENTIFIER_MISC, ty, 12>> : ty \in 0..11}
    \cup {<<SPRITE_IDENTIFIER_NULL, 0, 0>>, <<SPRITE_IDENTIFIER_NULL, SPRITE_MISC_DUCK, 14>>}

SpriteOfKind(i, k) ==
    IF k = <<SPRITE_IDENTIFIER_NULL, 0, 0>>
    THEN UnusedSprite(i)
    ELSE LiveSprite(k[1], k[2], i, k[3])

InitSprites ==
    /\ FreshExporter
    /\ SaveIdle
    /\ live \in {[EmptyPark EXCEPT !.sprites = [i \in SpriteSlots |-> SpriteOfKind(i, c[i])]] :
                    c \in [SpriteSlots -> SpriteKinds]}
    /\ exportPc = "sprites"
    /\ exportFrame = NoFrame
    /\ exportLog = <<>>
    /\ scenarioSave = NoCall

\* Export's step for the sprites (line 200): ExportSprites as a whole
GatherSprites ==
    /\ exportPc = "sprites"
    /\ live' = sprite_clear_all_unused(live)
    /\ s6' = ExportSprites(s6, live'.sprites)
    /\ exportLog' = Append(exportLog, "sprites") \o AllSpriteWarnings(live'.sprites, 0)
    /\ exportPc' = "done"
    /\ UNCHANGED <<ExportObjectsList, RemoveTracklessRides, saveVars, exportFrame, callerVars>>

NextSprites == GatherSprites

SpecSprites == InitSprites /\ [][NextSprites]_vars

----------------------------------------------------------------------------
(* Properties of the sprite dispatch *)

\* the common header of a sprite record, and what its kind adds
SpriteHeader(r) == <<r.sprite_identifier, r.type, r.sprite_index, r.x, r.flags>>
SpritePayload(r) == <<r.vehicle, r.peep, r.misc, r.litter>>

\* the kinds of sprite by what the claim says of them
IsNullSprite(src) == src.sprite_identifier = SPRITE_IDENTIFIER_NULL
IsUnknownSprite(src) ==
    src.sprite_identifier \notin {SPRITE_IDENTIFIER_NULL, SPRITE_IDENTIFIER_VEHICLE,
                                  SPRITE_IDENTIFIER_PEEP, SPRITE_IDENTIFIER_MISC,
                                  SPRITE_IDENTIFIER_LITTER}
IsUnsupportedMisc(src) ==
    /\ src.sprite_identifier = SPRITE_IDENTIFIER_MISC
    /\ src.type \notin 0..9

\* the warnings the claim expects from slot i on, in slot order
RECURSIVE ExpectedWarnings(_)
ExpectedWarnings(i) ==
    IF i >= RCT2_MAX_SPRITES THEN <<>>
    ELSE (IF IsUnknownSprite(live.sprites[i]) THEN <<"warn_identifier">>
          ELSE IF IsUnsupportedMisc(live.sprites[i]) THEN <<"warn_misc_type">>
          ELSE <<>>)
            \o ExpectedWarnings(i + 1)

\* C19: a sprite of unknown identifier and a misc sprite of unsupported type
\* are exported as the common header with every other byte zero, and a
\* warning is logged for each; a sprite of the null identifier is exported
\* as the common header alone, without a warning; a sprite of a supported
\* kind goes to the mapper of its kind, never to the fallback.
C19_SpriteDispatchFallback ==
    exportPc = "done" =>
        /\ \A i \in SpriteSlots :
            LET src == live.sprites[i]
                dst == s6.sprites[i]
            IN  /\ SpriteHeader(dst) = SpriteHeader(src)
                /\ IF IsNullSprite(src) \/ IsUnknownSprite(src) \/ IsUnsupportedMisc(src)
                   THEN SpritePayload(dst) = <<0, 0, 0, 0>>
                   ELSE SpritePayload(dst) =
                            <<IF src.sprite_identifier = SPRITE_IDENTIFIER_VEHICLE THEN src.extra ELSE 0,
                              IF src.sprite_identifier = SPRITE_IDENTIFIER_PEEP THEN src.extra ELSE 0,
                              IF src.sprite_identifier = SPRITE_IDENTIFIER_MISC THEN src.extra ELSE 0,
                              IF src.sprite_identifier = SPRITE_IDENTIFIER_LITTER THEN src.extra ELSE 0>>
        /\ SelectSeq(exportLog, LAMBDA e : e \in LoggedWarnings) = ExpectedWarnings(0)

\* an export of a sprite of unknown identifier followed by a misc sprite of
\* unsupported type, each exported as its header and each warned about
C19_Witness ==
    /\ exportPc = "done"
    /\ IsUnknownSprite(live.sprites[0])
    /\ IsUnsupportedMisc(live.sprites[1])
    /\ SpritePayload(s6.sprites[0]) = <<0, 0, 0, 0>>
    /\ SpritePayload(s6.sprites[1]) = <<0, 0, 0, 0>>
    /\ s6.sprites[1].type = live.sprites[1].type
    /\ exportLog = <<"sprites", "warn_identifier", "warn_misc_type">>

----------------------------------------------------------------------------
(* Export called by scenario_save or by any other holder of an exporter *)

\* an exporter as its constructor leaves it (lines 53-57), either inside a
\* scenario_save about to start or in the hands of another caller
InitPipeline ==
    /\ s6 = S6Zero
    /\ ExportObjectsList = <<>>
    /\ RemoveTracklessRides = FALSE
    /\ SaveIdle
    /\ live \in ParksToSave
    /\ exportPc = "idle"
    /\ exportFrame = NoFrame
    /\ exportLog = <<>>
    /\ scenarioSave \in {NoCall}
            \cup {[NoCall EXCEPT !.pc = "entry", !.flags = f] : f \in SaveFlags}

\* a caller other than scenario_save assigns the public setting before Export
CallerSetsRemoveTracklessRides ==
    /\ scenarioSave.pc = "none"
    /\ exportPc = "idle"
    /\ ~RemoveTracklessRides
    /\ RemoveTracklessRides' = TRUE
    /\ UNCHANGED <<s6, ExportObjectsList, saveVars, liveVars, exportVars, callerVars>>

\* a caller other than scenario_save calls Export
CallerCallsExport ==
    /\ scenarioSave.pc = "none"
    /\ exportPc = "idle"
    /\ exportPc' = "check_spatial"
    /\ UNCHANGED <<exporterVars, saveVars, liveVars, exportFrame, exportLog, callerVars>>

NextPipeline ==
    \/ CallerSetsRemoveTracklessRides
    \/ CallerCallsExport
    \/ NextScenarioSave

SpecPipeline == InitPipeline /\ [][NextPipeline]_vars

----------------------------------------------------------------------------
(* Properties of Export's order *)

IntegritySteps ==
    {"check_spatial", "check_lists", "fix_disjoint", "assert_spatial", "assert_lists"}
GatherSteps == {"sprites", "tables", "rides", "measurements"}
FixupSteps == {"trackless", "ghosts", "strings"}

\* every occurrence of a in the log comes before every occurrence of b
Precedes(a, b) ==
    \A i, j \in 1..Len(exportLog) :
        (exportLog[i] = a /\ exportLog[j] = b) => i < j

Occurrences(a) == Cardinality({i \in 1..Len(exportLog) : exportLog[i] = a})

\* C20: Export is one pass in a fixed order. The integrity checks precede
\* every gather step; ExportSprites comes before ExportRides, which comes
\* before ExportRideMeasurements; the fix-up passes come after every gather
\* step, in the order trackless rides, ghosts, strings, and only in an Export
\* that passed its checks. The trackless pass runs exactly when
\* RemoveTracklessRides is set, which the constructor leaves false and
\* scenario_save always sets; the ghost and string passes run in every
\* Export that completes. No step runs twice.
C20_ExportOrder ==
    /\ \A a \in IntegritySteps : \A b \in GatherSteps \cup FixupSteps : Precedes(a, b)
    /\ Precedes("sprites", "rides")
    /\ Precedes("rides", "measurements")
    /\ \A a \in GatherSteps : \A b \in FixupSteps : Precedes(a, b)
    /\ Precedes("trackless", "ghosts")
    /\ Precedes("ghosts", "strings")
    /\ \A a \in IntegritySteps \cup GatherSteps \cup FixupSteps : Occurrences(a) <= 1
    /\ exportPc = "failed" =>
            /\ \A a \in GatherSteps \cup FixupSteps : Occurrences(a) = 0
            /\ s6.fixups = <<>>
    /\ exportPc = "done" =>
            /\ \A a \in IntegritySteps \cup GatherSteps : Occurrences(a) = 1
            /\ Occurrences("trackless") = (IF RemoveTracklessRides THEN 1 ELSE 0)
            /\ Occurrences("ghosts") = 1
            /\ Occurrences("strings") = 1
            /\ s6.fixups = (IF RemoveTracklessRides THEN <<"trackless">> ELSE <<>>)
                                \o <<"ghosts", "strings">>
    /\ scenarioSave.pc \notin {"none", "entry"} => RemoveTracklessRides

\* an Export on an exporter with the default setting that ran to its end:
\* all gather steps, no trackless pass, then ghosts and strings
C20_Witness ==
    /\ exportPc = "done"
    /\ scenarioSave.pc = "none"
    /\ ~RemoveTracklessRides
    /\ StepsOf(exportLog) =
            <<"check_spatial", "check_lists", "fix_disjoint", "assert_spatial", "assert_lists",
              "sprites", "tables", "rides", "measurements", "ghosts", "strings">>
    /\ s6.fixups = <<"ghosts", "strings">>

\* an Export inside scenario_save that ran to its end with the trackless pass
ScenarioSaveRanTracklessPass ==
    /\ exportPc = "done"
    /\ scenarioSave.pc = "export"
    /\ s6.fixups = <<"trackless", "ghosts", "strings">>

----------------------------------------------------------------------------
(* Properties of the measurement back-references *)

\* C21: after ExportRideMeasurements every populated measurement slot i
\* names as its owner the ride r whose measurement it holds, and exported
\* ride r refers back to slot i; no two populated slots name the same owner;
\* the ride export, which runs first, leaves the back-references in place
\* next to the fields it copied.
C21_BackReferencesConsistent ==
    exportPc = "done" =>
        /\ \A i \in AssignedSlots :
            LET r == s6.ride_measurements[i].ride_index
            IN  /\ r \in MeasurementOwners
                /\ SlotHolds(i, r)
                /\ s6.rides[r].measurement_index = i
                /\ s6.rides[r].type = gRideList[r].type
        /\ \A i, j \in AssignedSlots :
                i # j => s6.ride_measurements[i].ride_index # s6.ride_measurements[j].ride_index

\* a full table cut down from more owners than slots, whose last slot is
\* owned by an open ride that refers back to it
C21_Witness ==
    /\ exportPc = "done"
    /\ NumOwners > RCT12_RIDE_MEASUREMENT_MAX_ITEMS
    /\ LET i == RCT12_RIDE_MEASUREMENT_MAX_ITEMS - 1
           r == s6.ride_measurements[i].ride_index
       IN  /\ i > 0
           /\ gRideList[r].type # RIDE_TYPE_NULL
           /\ s6.rides[r].measurement_index = i
           /\ SlotHolds(i, r)

----------------------------------------------------------------------------
(* Properties of the checksum on a stream that was not empty *)

\* the byte range this Save wrote its chunks to
FirstChunkByte == ChunkLog[1].from
LastChunkByte == ChunkLog[Len(ChunkLog)].to

ChecksumEntry == writeLog[Len(writeLog)]

\* C22: whatever the stream held when Save was called (nothing, some bytes,
\* or more bytes than this Save writes), the checksum is the sum of exactly
\* the bytes this call wrote, it lies immediately after the last chunk byte
\* this call wrote, and the stream position is left at its end.
C22_ChecksumOverWrittenRange ==
    savePc = "done" =>
        /\ ChecksumEntry.chunk = "checksum"
        /\ ChecksumEntry.from = LastChunkByte
        /\ stream.pos = LastChunkByte + 4
        /\ WrittenBytes(ChecksumEntry)
                = sawyercoding_calculate_checksum(
                        SubSeq(stream.data, FirstChunkByte + 1, LastChunkByte))

\* what the code does: the checksum is the sum of the stream from byte 0 to
\* its length and lies at that length
ChecksumOverWholeStream ==
    savePc = "done" =>
        /\ ChecksumEntry.chunk = "checksum"
        /\ ChecksumEntry.from = Max(LastChunkByte, Len(streamAtEntry.data))
        /\ stream.pos = ChecksumEntry.from + 4
        /\ Len(stream.data) = stream.pos
        /\ WrittenBytes(ChecksumEntry)
                = sawyercoding_calculate_checksum(SubSeq(stream.data, 1, ChecksumEntry.from))

\* a Save appended to a stream that held bytes: its checksum counts them
AppendedSaveCountsOldBytes ==
    /\ savePc = "done"
    /\ streamAtEntry.data # <<>>
    /\ streamAtEntry.pos = Len(streamAtEntry.data)
    /\ FirstChunkByte = streamAtEntry.pos
    /\ ChecksumEntry.from = LastChunkByte
    /\ WrittenBytes(ChecksumEntry)
            # sawyercoding_calculate_checksum(
                    SubSeq(stream.data, FirstChunkByte + 1, LastChunkByte))

\* a Save into the start of a longer stream: its checksum lies after the old
\* bytes, not after its last chunk
ShortSaveChecksumAfterOldBytes ==
    /\ savePc = "done"
    /\ Len(streamAtEntry.data) > LastChunkByte
    /\ ChecksumEntry.from = Len(streamAtEntry.data)
    /\ ChecksumEntry.from > LastChunkByte

----------------------------------------------------------------------------
(* The stored hash against the stored scalars *)

\* C23: when Export has completed, fix-up passes included, the snapshot's
\* loan_hash is GetLoanHash of the snapshot's own initial_cash, current_loan
\* and maximum_loan, which are the live values; it stays so while the
\* snapshot is saved.
C23_StoredHashMatchesStoredFields ==
    exportPc = "done" =>
        /\ s6.fixups # <<>>
        /\ s6.initial_cash = gInitialCash
        /\ s6.current_loan = gBankLoan
        /\ s6.maximum_loan = gMaxBankLoan
        /\ s6.loan_hash = GetLoanHash(s6.initial_cash, s6.current_loan, s6.maximum_loan)

\* a snapshot of a park with a loan, after all three fix-up passes and a
\* completed Save
C23_Witness ==
    /\ exportPc = "done"
    /\ s6.fixups = <<"trackless", "ghosts", "strings">>
    /\ savePc = "done"
    /\ s6.initial_cash = Money32(7342378)
    /\ s6.current_loan = Money32(10000)
    /\ s6.maximum_loan = <<255, 255, 255, 255>>
    /\ s6.loan_hash # <<0, 0, 0, 0>>
    /\ s6.loan_hash = GetLoanHash(gInitialCash, gBankLoan, gMaxBankLoan)

====
